---- MODULE Spec2Model ----
(***************************************************************************)
(* Availability and conflict-resolution engine of the Meeting Manager and  *)
(* the booking operations that call it.                                    *)
(*                                                                         *)
(* Time is counted in whole units.  A calendar day has DayLen units, a     *)
(* time of day is 0..DayLen-1 (DayLen-1 plays the part of 23:59) and a     *)
(* datetime is date * DayLen + time of day.                                *)
(***************************************************************************)
EXTENDS Integers, Sequences, FiniteSets, TLC

VARIABLES
    bookings,        \* Seq of MM Meeting Booking documents; a booking's name is its index
    blockedSlots,    \* Seq of MM User Blocked Slot rows, in query order
    rules,           \* Seq of MM User Availability Rule documents (with their date overrides)
    workingHours,    \* user -> MM User Settings.working_hours_json
    calendarEvents,  \* Seq of MM Calendar Event Sync rows joined to their integration's user
    customers,       \* Seq of MM Customer documents; a customer's name is its place
    last,            \* the request being answered: operation, arguments, outcome
    nops,            \* number of requests served so far
    inflight         \* for the interleaved runs: each worker's request and how far it got

vars == <<bookings, blockedSlots, rules, workingHours, calendarEvents, customers, last, nops, inflight>>

-----------------------------------------------------------------------------
(* Bounds of the model *)

DayLen == 4       \* units in a day
MaxDate == 1      \* dates are 0..MaxDate
Today == 1        \* getdate()
NowTime == 1      \* time of day of now_datetime()
MaxDur == 2       \* meeting durations are 1..MaxDur
MaxOps == 2       \* requests served in one run
MaxBookings == 2  \* documents in the booking table

Dates == 0..MaxDate
Times == 0..(DayLen - 1)
Durations == 1..MaxDur
NoTime == -1      \* a time or datetime argument that was not given (None)
NoBooking == 0    \* exclude_booking=None
NoUser == ""      \* a user argument that was not given

Combine(d, t) == d * DayLen + t                 \* datetime.combine(date, time)
DateOf(dt) == dt \div DayLen                    \* datetime.date()
TimeOf(dt) == dt % DayLen                       \* datetime.time()
Now == Combine(Today, NowTime)                  \* now_datetime()
Weekday(d) == d % 7                             \* date.weekday(), date 0 being a Monday

-----------------------------------------------------------------------------
(* Users, roles and departments: the bookings are of department D; lead2    *)
(* leads another department, and guest holds none of the roles.             *)

Users == {"admin", "lead", "lead2", "m1", "m2", "guest"}
Department == "D"
OtherDepartment == "E"
Departments == {Department, OtherDepartment}

UserRoles(u) ==
    CASE u = "admin" -> {"System Manager"}
      [] u \in {"lead", "lead2"} -> {"Department Leader", "MM Department Leader"}
      [] u = "guest" -> {}
      [] OTHER       -> {"MM Department Member"}

DepartmentLeader(d) ==
    IF d = Department THEN "lead" ELSE IF d = OtherDepartment THEN "lead2" ELSE NoUser
ActiveMembers(d) == IF d = Department THEN {"lead", "m1", "m2"} ELSE {}

-----------------------------------------------------------------------------
(* Statuses *)

FinalizedStatuses ==
    {"Cancelled", "Sale Approved", "Booking Approved Not Sale", "Not Possible", "Completed"}

\* The statuses the conflict, buffer and quota queries count as active
\* (booking_status IN ('Confirmed', 'Pending')).
QueryActiveStatuses == {"Confirmed", "Pending"}

-----------------------------------------------------------------------------
(* Messages.  Every message is a record of one shape, so that any two can   *)
(* be compared: kind says which text it is, the other fields are the values *)
(* the text embeds.                                                         *)

Msg(kind, ref, s, e, text, wins) ==
    [kind |-> kind, ref |-> ref, s |-> s, e |-> e, text |-> text, wins |-> wins]
NoMsg == Msg("none", 0, NoTime, NoTime, "", <<>>)    \* reason None

-----------------------------------------------------------------------------
(* check_blocked_slots *)

SlotOverlaps(slot, start_time, end_time) ==
    ~(end_time <= slot.start_time \/ start_time >= slot.end_time)

MemberSlotsOn(member, scheduled_date) ==
    SelectSeq(blockedSlots, LAMBDA s : s.user = member /\ s.blocked_date = scheduled_date)

CheckBlockedSlots(member, scheduled_date, start_time, end_time) ==
    LET hits == SelectSeq(MemberSlotsOn(member, scheduled_date),
                          LAMBDA s : SlotOverlaps(s, start_time, end_time))
    IN  IF hits = <<>>
        THEN [available |-> TRUE, reason |-> NoMsg, has_blocked_slot |-> FALSE]
        ELSE LET slot == Head(hits)
             IN  [available |-> FALSE,
                  reason |-> Msg("blocked", 0, slot.start_time, slot.end_time,
                                 IF slot.reason = "" THEN "Time slot is blocked" ELSE slot.reason,
                                 <<>>),
                  has_blocked_slot |-> TRUE]

-----------------------------------------------------------------------------
(* check_date_overrides *)

\* Truth value of a Time column read from the database: NULL and 00:00:00
\* (a zero timedelta) are both false.
TimeIsSet(t) == t # NoTime /\ t # 0

RECURSIVE InsertByStart(_, _)
InsertByStart(row, sorted) ==
    IF sorted = <<>> THEN <<row>>
    ELSE IF row.custom_hours_start < Head(sorted).custom_hours_start
         THEN <<row>> \o sorted
         ELSE <<Head(sorted)>> \o InsertByStart(row, Tail(sorted))

RECURSIVE OrderByStart(_)
OrderByStart(rows) ==
    IF rows = <<>> THEN <<>>
    ELSE InsertByStart(rows[Len(rows)], OrderByStart(SubSeq(rows, 1, Len(rows) - 1)))

RuleOverridesOn(rule, scheduled_date) ==
    OrderByStart(SelectSeq(rule.date_overrides, LAMBDA o : o.date = scheduled_date))

RECURSIVE ConcatOverrides(_, _)
ConcatOverrides(rs, scheduled_date) ==
    IF rs = <<>> THEN <<>>
    ELSE RuleOverridesOn(Head(rs), scheduled_date) \o ConcatOverrides(Tail(rs), scheduled_date)

MemberRules(member) == SelectSeq(rules, LAMBDA r : r.user = member)

AllOverrides(member, scheduled_date) == ConcatOverrides(MemberRules(member), scheduled_date)

CheckDateOverrides(member, scheduled_date, start_time, end_time) ==
    LET all_overrides == AllOverrides(member, scheduled_date)
        unavailable == SelectSeq(all_overrides, LAMBDA o : ~o.available)
        available_slots == SelectSeq(all_overrides,
            LAMBDA o : o.available /\ TimeIsSet(o.custom_hours_start) /\ TimeIsSet(o.custom_hours_end))
        fitting == SelectSeq(available_slots,
            LAMBDA o : start_time >= o.custom_hours_start /\ end_time <= o.custom_hours_end)
    IN  IF all_overrides = <<>>
        THEN [available |-> TRUE, reason |-> NoMsg, has_override |-> FALSE]
        ELSE IF unavailable # <<>>
        THEN [available |-> FALSE,
              reason |-> Msg("override_unavailable", 0, NoTime, NoTime,
                             IF Head(unavailable).reason = ""
                             THEN "Member is not available on this date"
                             ELSE Head(unavailable).reason, <<>>),
              has_override |-> TRUE]
        ELSE IF available_slots = <<>>
        THEN [available |-> TRUE, reason |-> NoMsg, has_override |-> TRUE]
        ELSE IF fitting # <<>>
        THEN [available |-> TRUE, reason |-> NoMsg, has_override |-> TRUE]
        ELSE [available |-> FALSE,
              reason |-> Msg("override_outside", 0, NoTime, NoTime, "",
                             [i \in 1..Len(available_slots) |->
                                <<available_slots[i].custom_hours_start,
                                  available_slots[i].custom_hours_end>>]),
              has_override |-> TRUE]

-----------------------------------------------------------------------------
(* check_working_hours *)

\* working_hours_json is "none" (no settings row or an empty value), "invalid"
\* (text json.loads rejects), "not_mapping" (text json.loads parses to a list,
\* a number, a string or null) or "json": a weekday mapping, days[w] being the
\* entry of weekday w with present = FALSE when the mapping has no such key.
NoDay == [present |-> FALSE, enabled |-> FALSE, start |-> NoTime, end |-> NoTime]

\* An exception leaving a check: the outcome carries the exception's name
\* in place of a reason, and no caller of the check goes on.
Raise(exception) ==
    [available |-> FALSE, reason |-> Msg(exception, 0, NoTime, NoTime, "", <<>>)]

Raised(result) == result.reason.kind = "AttributeError"

CheckWorkingHours(member, scheduled_date, start_time, end_time) ==
    LET settings == workingHours[member]
    IN  IF settings.kind = "none" THEN [available |-> TRUE, reason |-> NoMsg]
        ELSE IF settings.kind = "invalid" THEN [available |-> TRUE, reason |-> NoMsg]
        \* working_hours.get on a value that has no get: outside the try
        ELSE IF settings.kind = "not_mapping" THEN Raise("AttributeError")
        ELSE LET day_config == IF settings.days[Weekday(scheduled_date)].present
                               THEN settings.days[Weekday(scheduled_date)] ELSE NoDay
                 work_start == IF day_config.start = NoTime THEN 0 ELSE day_config.start
                 work_end == IF day_config.end = NoTime THEN DayLen - 1 ELSE day_config.end
             IN  IF ~day_config.enabled
                 THEN [available |-> FALSE,
                       reason |-> Msg("day_disabled", Weekday(scheduled_date), NoTime, NoTime, "", <<>>)]
                 ELSE IF start_time < work_start \/ end_time > work_end
                 THEN [available |-> FALSE,
                       reason |-> Msg("outside_working_hours", 0, work_start, work_end, "", <<>>)]
                 ELSE [available |-> TRUE, reason |-> NoMsg]

-----------------------------------------------------------------------------
(* Rows of the booking table the queries join *)

BookingIds(store) == 1..Len(store)

HostUsers(b) == {b.assigned_users[i].user : i \in 1..Len(b.assigned_users)}

InternalParticipantUsers(b) ==
    {b.participants[i].user : i \in {j \in 1..Len(b.participants) :
                                        b.participants[j].participant_type = "Internal"}}

\* The ids in a set, in ascending order: the order in which the model lists
\* the rows of a query that has no ORDER BY.
RECURSIVE Ascending(_)
Ascending(S) ==
    IF S = {} THEN <<>>
    ELSE LET m == CHOOSE x \in S : \A y \in S : x <= y
         IN  <<m>> \o Ascending(S \ {m})

-----------------------------------------------------------------------------
(* check_booking_conflicts *)

QueryActive(b) == b.booking_status \in QueryActiveStatuses

NotExcluded(id, exclude_booking) == exclude_booking = NoBooking \/ id # exclude_booking

HostConflictIds(store, member, start_dt, end_dt, exclude_booking) ==
    {id \in BookingIds(store) :
        /\ member \in HostUsers(store[id])
        /\ QueryActive(store[id])
        /\ store[id].start_datetime < end_dt
        /\ store[id].end_datetime > start_dt
        /\ NotExcluded(id, exclude_booking)}

ParticipantConflictIds(store, member, start_dt, end_dt, exclude_booking) ==
    {id \in BookingIds(store) :
        /\ member \in InternalParticipantUsers(store[id])
        /\ QueryActive(store[id])
        /\ store[id].start_datetime < end_dt
        /\ store[id].end_datetime > start_dt
        /\ NotExcluded(id, exclude_booking)}

CheckBookingConflicts(store, member, scheduled_date, start_time, end_time, exclude_booking) ==
    LET scheduled_start_datetime == Combine(scheduled_date, start_time)
        scheduled_end_datetime == Combine(scheduled_date, end_time)
        host == HostConflictIds(store, member, scheduled_start_datetime, scheduled_end_datetime,
                                exclude_booking)
        part == ParticipantConflictIds(store, member, scheduled_start_datetime, scheduled_end_datetime,
                                       exclude_booking) \ host
        ConflictRow(id) ==
            [booking_id |-> id,
             message |-> Msg("booking_conflict", id,
                             TimeOf(store[id].start_datetime),
                             TimeOf(store[id].end_datetime),
                             IF id \in host THEN "" ELSE "(as participant)", <<>>)]
        ConflictRows(ids) == [i \in 1..Len(ids) |-> ConflictRow(ids[i])]
    IN  ConflictRows(Ascending(host) \o Ascending(part))

-----------------------------------------------------------------------------
(* check_calendar_event_conflicts *)

CheckCalendarEventConflicts(member, start_datetime, end_datetime) ==
    LET hits == SelectSeq(calendarEvents, LAMBDA ev :
                    /\ ev.user = member
                    /\ ev.is_blocking_availability
                    /\ ev.event_type # "All-Day Event"
                    /\ ev.sync_status = "Synced"
                    /\ ev.start_datetime < end_datetime
                    /\ ev.end_datetime > start_datetime)
    IN  [i \in 1..Len(hits) |->
            [event_title |-> IF hits[i].event_title = "" THEN "Busy" ELSE hits[i].event_title,
             message |-> Msg("calendar_event", 0, TimeOf(hits[i].start_datetime),
                             TimeOf(hits[i].end_datetime),
                             IF hits[i].event_title = "" THEN "Busy" ELSE hits[i].event_title,
                             <<>>)]]

-----------------------------------------------------------------------------
(* The rule the buffer and quota checks read: order_by is_default desc, limit 1 *)

FirstRule(member) ==
    LET mine == MemberRules(member)
        defaults == SelectSeq(mine, LAMBDA r : r.is_default)
    IN  IF defaults # <<>> THEN Head(defaults) ELSE Head(mine)

-----------------------------------------------------------------------------
(* check_buffer_time_conflicts *)

InBufferWindow(b, buffer_start, buffer_end) ==
    \/ (b.start_datetime >= buffer_start /\ b.start_datetime < buffer_end)
    \/ (b.end_datetime > buffer_start /\ b.end_datetime <= buffer_end)

NearbyIds(store, member, scheduled_date, buffer_start, buffer_end, exclude_booking) ==
    {id \in BookingIds(store) :
        /\ \/ member \in HostUsers(store[id])
           \/ member \in InternalParticipantUsers(store[id])
        /\ DateOf(store[id].start_datetime) = scheduled_date
        /\ QueryActive(store[id])
        /\ InBufferWindow(store[id], buffer_start, buffer_end)
        /\ NotExcluded(id, exclude_booking)}

\* "before", "after" or "none": which branch of the buffer-zone test a nearby booking takes
BufferSide(b, start_datetime, end_datetime, buffer_start, buffer_end) ==
    IF ~(b.end_datetime <= buffer_start \/ b.start_datetime >= buffer_end)
    THEN IF b.end_datetime > buffer_start /\ b.end_datetime <= start_datetime THEN "before"
         ELSE IF b.start_datetime < buffer_end /\ b.start_datetime >= end_datetime THEN "after"
         ELSE "none"
    ELSE "none"

CheckBufferTimeConflicts(store, member, start_datetime, end_datetime, exclude_booking) ==
    IF MemberRules(member) = <<>> THEN <<>>
    ELSE LET rule == FirstRule(member)
             buffer_before == rule.buffer_time_before
             buffer_after == rule.buffer_time_after
             buffer_start == start_datetime - buffer_before
             buffer_end == end_datetime + buffer_after
             nearby == Ascending(NearbyIds(store, member, DateOf(start_datetime), buffer_start,
                                           buffer_end, exclude_booking))
             Side(id) == BufferSide(store[id], start_datetime, end_datetime,
                                    buffer_start, buffer_end)
             BufferRow(id, side) ==
                [message |-> Msg("buffer_" \o side, id,
                                 IF side = "before" THEN buffer_before ELSE buffer_after,
                                 NoTime, "", <<>>)]
             BufferRows(violating) ==
                [i \in 1..Len(violating) |-> BufferRow(violating[i], Side(violating[i]))]
         IN  IF buffer_before = 0 /\ buffer_after = 0 THEN <<>>
             ELSE BufferRows(SelectSeq(nearby, LAMBDA id : Side(id) # "none"))

-----------------------------------------------------------------------------
(* check_availability_rules *)

\* max_bookings_per_day / _per_week: 0 stands for an unset (or zero) limit
CountedIds(store, member, first_date, last_date) ==
    {id \in BookingIds(store) :
        /\ \/ member \in HostUsers(store[id])
           \/ member \in InternalParticipantUsers(store[id])
        /\ DateOf(store[id].start_datetime) >= first_date
        /\ DateOf(store[id].start_datetime) <= last_date
        /\ QueryActive(store[id])}

CheckAvailabilityRules(store, member, scheduled_date) ==
    IF MemberRules(member) = <<>> THEN [available |-> TRUE, reason |-> NoMsg]
    ELSE LET rule == FirstRule(member)
             day_bookings == Cardinality(CountedIds(store, member, scheduled_date, scheduled_date))
             week_start == scheduled_date - Weekday(scheduled_date)
             week_end == week_start + 6
             week_bookings == Cardinality(CountedIds(store, member, week_start, week_end))
         IN  IF rule.max_bookings_per_day # 0 /\ day_bookings >= rule.max_bookings_per_day
             THEN [available |-> FALSE,
                   reason |-> Msg("max_per_day", rule.max_bookings_per_day, NoTime, NoTime, "", <<>>)]
             ELSE IF rule.max_bookings_per_week # 0 /\ week_bookings >= rule.max_bookings_per_week
             THEN [available |-> FALSE,
                   reason |-> Msg("max_per_week", rule.max_bookings_per_week, NoTime, NoTime, "", <<>>)]
             ELSE [available |-> TRUE, reason |-> NoMsg]

-----------------------------------------------------------------------------
(* check_member_availability *)

Conflict(type, message, booking_id) ==
    [type |-> type, message |-> message, booking_id |-> booking_id]

\* 2. date overrides, else 3. working hours
HoursConflicts(date_override_check, working_hours_check) ==
    IF date_override_check.has_override
    THEN IF ~date_override_check.available
         THEN <<Conflict("date_override", date_override_check.reason, NoBooking)>>
         ELSE <<>>
    ELSE IF ~working_hours_check.available
         THEN <<Conflict("working_hours", working_hours_check.reason, NoBooking)>>
         ELSE <<>>

\* 4. to 7., each step skipped once a conflict is on the list
CollectConflictsUntilFirst(hours, booking_conflicts, calendar_conflicts, buffer_conflicts, availability_rule_check) ==
    IF hours # <<>> THEN hours
    ELSE IF booking_conflicts # <<>>
    THEN [i \in 1..Len(booking_conflicts) |->
            Conflict("booking_conflict", booking_conflicts[i].message, booking_conflicts[i].booking_id)]
    ELSE IF calendar_conflicts # <<>>
    THEN [i \in 1..Len(calendar_conflicts) |->
            Conflict("calendar_event", calendar_conflicts[i].message, NoBooking)]
    ELSE IF buffer_conflicts # <<>>
    THEN [i \in 1..Len(buffer_conflicts) |->
            Conflict("buffer_time", buffer_conflicts[i].message, NoBooking)]
    ELSE IF ~availability_rule_check.available
    THEN <<Conflict("availability_rule", availability_rule_check.reason, NoBooking)>>
    ELSE <<>>

\* 4. to 7.: every conflict found is appended
CollectConflicts(hours, booking_conflicts, calendar_conflicts, buffer_conflicts, availability_rule_check) ==
    hours
    \o [i \in 1..Len(booking_conflicts) |->
            Conflict("booking_conflict", booking_conflicts[i].message,
                     booking_conflicts[i].booking_id)]
    \o [i \in 1..Len(calendar_conflicts) |->
            Conflict("calendar_event", calendar_conflicts[i].message, NoBooking)]
    \o [i \in 1..Len(buffer_conflicts) |->
            Conflict("buffer_time", buffer_conflicts[i].message, NoBooking)]
    \o (IF ~availability_rule_check.available
        THEN <<Conflict("availability_rule", availability_rule_check.reason, NoBooking)>>
        ELSE <<>>)

\* store is the booking table the queries of the check read.  When
\* check_working_hours raises, the exception leaves check_member_availability
\* too: the outcome has no conflicts and the exception's name as its reason.
CheckMemberAvailability(store, member, scheduled_date, scheduled_start_time, duration_minutes, exclude_booking) ==
    LET start_datetime == Combine(scheduled_date, scheduled_start_time)
        end_datetime == start_datetime + duration_minutes
        scheduled_end_time == TimeOf(end_datetime)
        \* 1. a blocked slot returns at once, with this conflict only
        Answer(blocked_slot_check, raised, conflicts) ==
            IF ~blocked_slot_check.available
            THEN [available |-> FALSE,
                  conflicts |-> <<Conflict("blocked_slot", blocked_slot_check.reason, NoBooking)>>,
                  reason |-> blocked_slot_check.reason]
            ELSE IF raised
            THEN [available |-> FALSE, conflicts |-> <<>>,
                  reason |-> Raise("AttributeError").reason]
            ELSE [available |-> Len(conflicts) = 0,
                  conflicts |-> conflicts,
                  reason |-> IF conflicts # <<>> THEN conflicts[1].message ELSE NoMsg]
        Checked(blocked_slot_check, date_override_check, working_hours_check) ==
            Answer(blocked_slot_check,
                   ~date_override_check.has_override /\ Raised(working_hours_check),
                   CollectConflicts(
                       HoursConflicts(date_override_check, working_hours_check),
                       CheckBookingConflicts(store, member, scheduled_date, scheduled_start_time,
                                             scheduled_end_time, exclude_booking),
                       CheckCalendarEventConflicts(member, start_datetime, end_datetime),
                       CheckBufferTimeConflicts(store, member, start_datetime, end_datetime,
                                                exclude_booking),
                       CheckAvailabilityRules(store, member, scheduled_date)))
    IN  Checked(CheckBlockedSlots(member, scheduled_date, scheduled_start_time, scheduled_end_time),
                CheckDateOverrides(member, scheduled_date, scheduled_start_time, scheduled_end_time),
                CheckWorkingHours(member, scheduled_date, scheduled_start_time, scheduled_end_time))

-----------------------------------------------------------------------------
(* Booking documents *)

AssignedUser(user, is_primary_host) == [user |-> user, is_primary_host |-> is_primary_host]

Participant(user, participant_type) == [user |-> user, participant_type |-> participant_type]

\* A booking_history row as the handlers write it: update_booking_status names
\* the actor action_by, the other handlers performed_by.
HistoryEntry(action, performed_by, action_by) ==
    [action |-> action, performed_by |-> performed_by, action_by |-> action_by]

BookingDoc(booking_status, status, start_datetime, end_datetime, duration, is_internal, assigned_users, participants) ==
    [booking_status |-> booking_status,
     status |-> status,
     start_datetime |-> start_datetime,
     end_datetime |-> end_datetime,
     duration |-> duration,
     is_internal |-> is_internal,
     department |-> Department,
     assigned_users |-> assigned_users,
     participants |-> participants,
     booking_history |-> <<>>]

\* Index of the primary-host row: the first row flagged is_primary_host, else
\* the first row, else 0 when the booking has no assigned user.
PrimaryIndex(b) ==
    LET flagged == {i \in 1..Len(b.assigned_users) : b.assigned_users[i].is_primary_host}
    IN  IF flagged # {} THEN CHOOSE i \in flagged : \A j \in flagged : i <= j
        ELSE IF Len(b.assigned_users) > 0 THEN 1
        ELSE 0

PrimaryUser(b) == IF PrimaryIndex(b) = 0 THEN NoUser ELSE b.assigned_users[PrimaryIndex(b)].user

-----------------------------------------------------------------------------
(* What a handler answers: ok, a message, and the booking table it leaves *)

\* items lists, for an availability failure, each user the message names with
\* the reason given for that user
OpMsg(kind, text, items) == [kind |-> kind, text |-> text, items |-> items]
Item(name, reason) == [name |-> name, reason |-> reason]

Rejected(kind, text, items) ==
    [ok |-> FALSE, message |-> OpMsg(kind, text, items), bookings |-> bookings]

Done(kind, store) ==
    [ok |-> TRUE, message |-> OpMsg(kind, "", <<>>), bookings |-> store]

\* every conflict message of an availability result, each under the user's name
ConflictItems(name, availability) ==
    [i \in 1..Len(availability.conflicts) |-> Item(name, availability.conflicts[i].message)]

-----------------------------------------------------------------------------
(* Permission helpers of api/booking.py *)

HasPermissionToManageBooking(caller, b) ==
    \/ "System Manager" \in UserRoles(caller)
    \/ /\ "Department Leader" \in UserRoles(caller)
       /\ b.department # ""
       /\ DepartmentLeader(b.department) = caller
    \/ caller \in HostUsers(b)

-----------------------------------------------------------------------------
(* reassign_booking *)

ReassignRows(b, new_assigned_to, caller) ==
    IF PrimaryIndex(b) # 0
    THEN [b.assigned_users EXCEPT ![PrimaryIndex(b)].user = new_assigned_to]
    ELSE Append(b.assigned_users, AssignedUser(new_assigned_to, TRUE))

\* A guard that knows only the two terminal statuses of the legacy vocabulary
\* (the list of the timeline handler); the finalized-booking properties must
\* not survive it.
ReassignGuardLegacyStatuses(b) == b.booking_status \in {"Cancelled", "Completed"}

ReassignFinalizedGuard(b) == b.booking_status \in FinalizedStatuses

\* store is the booking table as the running transaction sees it; a throw
\* rolls the whole request back
ReassignBooking(store, caller, booking_id, new_assigned_to) ==
    LET booking == store[booking_id]
        availability == CheckMemberAvailability(store, new_assigned_to,
                            DateOf(booking.start_datetime), TimeOf(booking.start_datetime),
                            booking.duration, booking_id)
        saved == [booking EXCEPT
                    !.assigned_users = ReassignRows(booking, new_assigned_to, caller),
                    !.booking_history = Append(@, HistoryEntry("Reassigned", caller, NoUser))]
    IN  IF ~HasPermissionToManageBooking(caller, booking)
        THEN Rejected("no_permission", "", <<>>)
        ELSE IF ReassignFinalizedGuard(booking)
        THEN Rejected("cannot_reassign", booking.booking_status, <<>>)
        ELSE IF booking.department # "" /\ new_assigned_to \notin ActiveMembers(booking.department)
        THEN Rejected("not_active_member", new_assigned_to, <<>>)
        ELSE IF ~availability.available
        THEN Rejected("new_member_unavailable", "",
                      <<Item(new_assigned_to, availability.reason)>>)
        ELSE Done("reassigned", [store EXCEPT ![booking_id] = saved])

-----------------------------------------------------------------------------
(* reschedule_booking_internal *)

RescheduleFinalizedGuard(b) == b.booking_status \in FinalizedStatuses

RescheduleBookingInternal(store, caller, booking_id, new_date, new_time) ==
    LET booking == store[booking_id]
        new_start_datetime == Combine(new_date, new_time)
        new_end_datetime == new_start_datetime + booking.duration
        primary_user == PrimaryUser(booking)
        availability == CheckMemberAvailability(store, primary_user, new_date, new_time,
                                                booking.duration, booking_id)
        saved == [booking EXCEPT
                    !.start_datetime = new_start_datetime,
                    !.end_datetime = new_end_datetime,
                    !.booking_history = Append(@, HistoryEntry("Rescheduled", caller, NoUser))]
    IN  IF ~HasPermissionToManageBooking(caller, booking)
        THEN Rejected("no_permission", "", <<>>)
        ELSE IF RescheduleFinalizedGuard(booking)
        THEN Rejected("cannot_reschedule", booking.booking_status, <<>>)
        ELSE IF new_date < Today
        THEN Rejected("past_date", "", <<>>)
        ELSE IF primary_user # NoUser /\ ~availability.available
        THEN Rejected("member_unavailable", "", <<Item(primary_user, availability.reason)>>)
        ELSE Done("rescheduled", [store EXCEPT ![booking_id] = saved])

-----------------------------------------------------------------------------
(* update_booking_status *)

ValidStatuses == {"Confirmed", "Cancelled", "Completed", "No-show"}

\* The handler has no check of the current status: what it refuses is an
\* unpermitted caller and a target outside valid_statuses.
StatusUpdateRefused(b, new_status) == new_status \notin ValidStatuses

UpdateBookingStatus(caller, booking_id, new_status) ==
    LET booking == bookings[booking_id]
        saved == [booking EXCEPT
                    !.status = new_status,
                    !.booking_history =
                        Append(@, HistoryEntry("Status changed to " \o new_status, NoUser, caller))]
    IN  IF ~HasPermissionToManageBooking(caller, booking)
        THEN Rejected("no_permission", "", <<>>)
        ELSE IF StatusUpdateRefused(booking, new_status)
        THEN Rejected("invalid_status", new_status, <<>>)
        ELSE Done("status_updated", [bookings EXCEPT ![booking_id] = saved])

-----------------------------------------------------------------------------
(* Role helpers of page/mm_enhanced_calendar/api.py *)

GetUserRoleLevel(user) ==
    IF "System Manager" \in UserRoles(user) THEN "system_manager"
    ELSE IF "MM Department Leader" \in UserRoles(user) THEN "department_leader"
    ELSE IF "MM Department Member" \in UserRoles(user) THEN "department_member"
    ELSE "guest"

\* get_user_departments: the names it returns, and those with is_leader
AccessibleDepartments(user) ==
    IF GetUserRoleLevel(user) = "system_manager" THEN Departments
    ELSE {d \in Departments : DepartmentLeader(d) = user \/ user \in ActiveMembers(d)}

LedDepartments(user) ==
    IF GetUserRoleLevel(user) = "system_manager" THEN Departments
    ELSE {d \in Departments : DepartmentLeader(d) = user}

-----------------------------------------------------------------------------
(* update_calendar_booking *)

\* the first unavailable user of a list, with that user's availability: <<>> when all are available
RECURSIVE FirstUnavailable(_, _, _, _, _)
FirstUnavailable(users, scheduled_date, scheduled_time, duration_minutes, exclude_booking) ==
    IF users = <<>> THEN <<>>
    ELSE LET availability == CheckMemberAvailability(bookings, Head(users), scheduled_date, scheduled_time,
                                                     duration_minutes, exclude_booking)
         IN  IF ~availability.available
             THEN <<[user |-> Head(users), availability |-> availability]>>
             ELSE FirstUnavailable(Tail(users), scheduled_date, scheduled_time,
                                   duration_minutes, exclude_booking)

\* replace primary host: the first row that is flagged or holds the primary host
CalendarReassignRows(b, new_host) ==
    LET match == {i \in 1..Len(b.assigned_users) :
                    b.assigned_users[i].is_primary_host \/ b.assigned_users[i].user = PrimaryUser(b)}
    IN  IF match # {}
        THEN [b.assigned_users EXCEPT ![CHOOSE i \in match : \A j \in match : i <= j].user = new_host]
        ELSE Append(b.assigned_users, AssignedUser(new_host, TRUE))

\* the hosts whose availability a calendar reschedule checks, in row order
CalendarHostsToCheck(b) == [i \in 1..Len(b.assigned_users) |-> b.assigned_users[i].user]

\* the internal participants it checks for a team meeting: those with a user who are not hosts
CalendarParticipantsToCheck(b) ==
    IF b.is_internal
    THEN LET rows == SelectSeq(b.participants, LAMBDA p :
                        /\ p.participant_type = "Internal"
                        /\ p.user # NoUser
                        /\ p.user \notin HostUsers(b))
         IN  [i \in 1..Len(rows) |-> rows[i].user]
    ELSE <<>>

CalendarFinalizedGuard(b) == b.booking_status \in FinalizedStatuses

CalendarInternalReassignGuard(b) == b.is_internal

UpdateCalendarBooking(caller, booking_id, start_datetime, end_datetime, new_host) ==
    LET booking == bookings[booking_id]
        role_level == GetUserRoleLevel(caller)
        department == booking.department
        assigned_users == HostUsers(booking)
        led_dept_names == LedDepartments(caller)
        \* reassignment part
        host_duration == booking.end_datetime - booking.start_datetime
        new_host_availability ==
            CheckMemberAvailability(bookings, new_host, DateOf(booking.start_datetime),
                                    TimeOf(booking.start_datetime), host_duration, booking_id)
        reassign_error ==
            IF new_host = NoUser THEN <<>>
            ELSE IF CalendarInternalReassignGuard(booking)
            THEN <<OpMsg("team_meeting_not_reassignable", "", <<>>)>>
            ELSE IF role_level = "department_member"
            THEN <<OpMsg("no_permission_reassign", "", <<>>)>>
            ELSE IF role_level = "department_leader" /\ department \notin led_dept_names
            THEN <<OpMsg("not_led_department", "", <<>>)>>
            ELSE IF new_host \notin ActiveMembers(department)
            THEN <<OpMsg("not_active_member", new_host, <<>>)>>
            ELSE IF ~new_host_availability.available
            THEN <<OpMsg("new_host_unavailable", "", ConflictItems(new_host, new_host_availability))>>
            ELSE <<>>
        reassigned == IF new_host = NoUser THEN booking
                      ELSE [booking EXCEPT !.assigned_users = CalendarReassignRows(booking, new_host)]
        \* reschedule part
        rescheduling == start_datetime # NoTime \/ end_datetime # NoTime
        moved == [reassigned EXCEPT
                    !.start_datetime = IF start_datetime # NoTime THEN start_datetime ELSE @,
                    !.end_datetime = IF end_datetime # NoTime THEN end_datetime ELSE @]
        duration_minutes == moved.end_datetime - moved.start_datetime
        scheduled_date == DateOf(moved.start_datetime)
        scheduled_time == TimeOf(moved.start_datetime)
        busy_host == FirstUnavailable(CalendarHostsToCheck(moved), scheduled_date, scheduled_time,
                                      duration_minutes, booking_id)
        busy_participant == FirstUnavailable(CalendarParticipantsToCheck(moved), scheduled_date,
                                             scheduled_time, duration_minutes, booking_id)
        reschedule_error ==
            IF ~rescheduling THEN <<>>
            ELSE IF role_level = "department_member" /\ caller \notin assigned_users
            THEN <<OpMsg(IF booking.is_internal THEN "only_hosts_reschedule_team"
                         ELSE "only_own_bookings", "", <<>>)>>
            ELSE IF /\ role_level = "department_leader"
                    /\ department \notin led_dept_names
                    /\ caller \notin assigned_users
            THEN <<OpMsg(IF booking.is_internal THEN "only_hosts_reschedule_team"
                         ELSE "not_led_department", "", <<>>)>>
            ELSE IF start_datetime # NoTime /\ start_datetime < Now
            THEN <<OpMsg("past_datetime", "", <<>>)>>
            ELSE IF busy_host # <<>>
            THEN <<OpMsg("host_unavailable", "",
                         ConflictItems(busy_host[1].user, busy_host[1].availability))>>
            ELSE IF busy_participant # <<>>
            THEN <<OpMsg("participant_unavailable", "",
                         ConflictItems(busy_participant[1].user, busy_participant[1].availability))>>
            ELSE <<>>
    IN  IF CalendarFinalizedGuard(booking)
        THEN Rejected("cannot_modify", booking.booking_status, <<>>)
        ELSE IF reassign_error # <<>>
        THEN [ok |-> FALSE, message |-> reassign_error[1], bookings |-> bookings]
        ELSE IF reschedule_error # <<>>
        THEN [ok |-> FALSE, message |-> reschedule_error[1], bookings |-> bookings]
        ELSE Done("updated", [bookings EXCEPT ![booking_id] = moved])

-----------------------------------------------------------------------------
(* update_booking of page/mm_timeline_calendar/api.py *)

\* str.lower() of a status
Lower(s) ==
    CASE s = "Cancelled" -> "cancelled"
      [] s = "Completed" -> "completed"
      [] OTHER -> s

\* tz_offset is the shift from the UTC instant received to the wall time of
\* browser_timezone (or of the system timezone). Every throw of the two
\* handlers it calls is caught and rolled back.
TimelineUpdateBooking(caller, booking_id, start_datetime, end_datetime, new_host, department, tz_offset) ==
    LET booking == bookings[booking_id]
        is_rescheduling == start_datetime # NoTime /\ end_datetime # NoTime
        is_reassigning == new_host # NoUser /\ department # ""
        reassignment_result == ReassignBooking(bookings, caller, booking_id, new_host)
        after_reassign == IF is_reassigning THEN reassignment_result.bookings ELSE bookings
        start_dt_local == start_datetime + tz_offset
        reschedule_result == RescheduleBookingInternal(after_reassign, caller, booking_id,
                                                       DateOf(start_dt_local),
                                                       TimeOf(start_dt_local))
    IN  IF ~HasPermissionToManageBooking(caller, booking)
        THEN Rejected("no_permission", "", <<>>)
        ELSE IF booking.booking_status \in {"Cancelled", "Completed"}
        THEN Rejected("cannot_modify", Lower(booking.booking_status), <<>>)
        ELSE IF is_reassigning /\ ~reassignment_result.ok
        THEN [reassignment_result EXCEPT !.message.kind = "error:" \o @]
        ELSE IF is_rescheduling /\ ~reschedule_result.ok
        THEN [reschedule_result EXCEPT !.message.kind = "error:" \o @]
        ELSE Done("updated", IF is_rescheduling THEN reschedule_result.bookings
                             ELSE after_reassign)

-----------------------------------------------------------------------------
(* create_self_booking *)

CreateSelfBooking(caller, scheduled_date, scheduled_start_time, duration) ==
    LET start_datetime == Combine(scheduled_date, scheduled_start_time)
        end_datetime == start_datetime + duration
        availability == CheckMemberAvailability(bookings, caller, scheduled_date,
                                                scheduled_start_time, duration, NoBooking)
        booking == BookingDoc("New Booking", "", start_datetime, end_datetime, duration, FALSE,
                              <<AssignedUser(caller, TRUE)>>, <<>>)
    IN  IF caller \notin ActiveMembers(Department)
        THEN Rejected("not_active_member", caller, <<>>)
        ELSE IF scheduled_date < Today
        THEN Rejected("past_date", "", <<>>)
        ELSE IF ~availability.available
        THEN Rejected("you_unavailable", "", <<Item(caller, availability.reason)>>)
        ELSE Done("created", Append(bookings, booking))

-----------------------------------------------------------------------------
(* create_slot_booking *)

CreateSlotBooking(caller, assigned_to, start_dt, end_dt) ==
    LET role_level == GetUserRoleLevel(caller)
        duration_minutes == end_dt - start_dt
        availability == CheckMemberAvailability(bookings, assigned_to, DateOf(start_dt),
                                                TimeOf(start_dt), duration_minutes, NoBooking)
        booking == BookingDoc("New Booking", "", start_dt, end_dt, duration_minutes, FALSE,
                              <<AssignedUser(assigned_to, TRUE)>>, <<>>)
    IN  IF Department \notin AccessibleDepartments(caller)
        THEN Rejected("no_department_access", "", <<>>)
        ELSE IF role_level = "department_leader" /\ Department \notin LedDepartments(caller)
        THEN Rejected("not_led_department", "", <<>>)
        ELSE IF role_level \notin {"system_manager", "department_leader"} /\ assigned_to # caller
        THEN Rejected("only_for_yourself", "", <<>>)
        ELSE IF start_dt < Now
        THEN Rejected("past_datetime", "", <<>>)
        ELSE IF ~availability.available
        THEN Rejected("host_unavailable", "", ConflictItems(assigned_to, availability))
        ELSE Done("created", Append(bookings, booking))

-----------------------------------------------------------------------------
(* create_team_meeting *)

\* the participants found unavailable, in the order listed, each with its reason
RECURSIVE UnavailableParticipants(_, _, _, _)
UnavailableParticipants(participants, scheduled_date, scheduled_start_time, duration) ==
    IF participants = <<>> THEN <<>>
    ELSE LET availability == CheckMemberAvailability(bookings, Head(participants), scheduled_date,
                                                     scheduled_start_time, duration, NoBooking)
             rest == UnavailableParticipants(Tail(participants), scheduled_date,
                                             scheduled_start_time, duration)
         IN  IF ~availability.available
             THEN <<Item(Head(participants), availability.reason)>> \o rest
             ELSE rest

\* A test that refuses the meeting only when nobody can attend (OR in place of
\* AND); the team-meeting properties must not survive it.
TeamMeetingBlockedIfAll(participants, unavailable_participants) ==
    Len(unavailable_participants) = Len(participants)

TeamMeetingBlocked(participants, unavailable_participants) == unavailable_participants # <<>>

CreateTeamMeeting(caller, participants, scheduled_date, scheduled_start_time, duration) ==
    LET start_datetime == Combine(scheduled_date, scheduled_start_time)
        end_datetime == start_datetime + duration
        unavailable_participants == UnavailableParticipants(participants, scheduled_date,
                                                            scheduled_start_time, duration)
        booking == BookingDoc("New Booking", "New Booking", start_datetime, end_datetime,
                              duration, TRUE, <<AssignedUser(caller, TRUE)>>,
                              [i \in 1..Len(participants) |->
                                    Participant(participants[i], "Internal")])
    IN  IF participants = <<>>
        THEN Rejected("missing_field", "participants", <<>>)
        ELSE IF "System Manager" \notin UserRoles(caller) /\ DepartmentLeader(Department) # caller
        THEN Rejected("not_department_leader", "", <<>>)
        ELSE IF scheduled_date < Today
        THEN Rejected("past_date", "", <<>>)
        ELSE IF TeamMeetingBlocked(participants, unavailable_participants)
        THEN Rejected("participants_unavailable", "", unavailable_participants)
        ELSE Done("created", Append(bookings, booking))

-----------------------------------------------------------------------------
(* Requests and their answers *)

\* One shape for every request: a field an operation does not take holds the
\* value of an argument that was not given.
Request(op, caller, booking_id, start_datetime, end_datetime, duration, new_host, department, participants, new_status) ==
    [op |-> op, caller |-> caller, booking_id |-> booking_id,
     start_datetime |-> start_datetime, end_datetime |-> end_datetime, duration |-> duration,
     new_host |-> new_host, department |-> department, participants |-> participants,
     new_status |-> new_status]

NoRequest == Request("none", NoUser, NoBooking, NoTime, NoTime, 0, NoUser, "", <<>>, "")

NoAvailability == [available |-> TRUE, conflicts |-> <<>>, reason |-> NoMsg]

NoLast == [request |-> NoRequest, ok |-> TRUE, message |-> OpMsg("none", "", <<>>),
           availability |-> NoAvailability]

\* the inputs the requests are drawn from
Starts == {Combine(Today - 1, DayLen - 1)} \cup {Combine(Today, t) : t \in Times}
Members == {"lead", "m1", "m2"}
ParticipantLists == {<<>>, <<"m1">>, <<"m2">>, <<"m1", "m2">>}
StatusTargets == ValidStatuses \cup {"Sale Approved"}
TzOffsets == {0}

\* The request is served in one transaction: the table the handler leaves is
\* committed and its answer recorded.
Ready == last.request.op = "none" /\ nops < MaxOps

Serve(request, result) ==
    /\ bookings' = result.bookings
    /\ last' = [request |-> request, ok |-> result.ok, message |-> result.message,
                availability |-> NoAvailability]
    /\ nops' = nops + 1
    /\ UNCHANGED <<blockedSlots, rules, workingHours, calendarEvents, customers, inflight>>

ReassignBookingRequest ==
    /\ Ready
    /\ \E caller \in Users, booking_id \in BookingIds(bookings), new_assigned_to \in Members :
        Serve(Request("reassign_booking", caller, booking_id, NoTime, NoTime, 0,
                      new_assigned_to, "", <<>>, ""),
              ReassignBooking(bookings, caller, booking_id, new_assigned_to))

RescheduleBookingInternalRequest ==
    /\ Ready
    /\ \E caller \in Users, booking_id \in BookingIds(bookings), start \in Starts :
        Serve(Request("reschedule_booking_internal", caller, booking_id, start, NoTime, 0,
                      NoUser, "", <<>>, ""),
              RescheduleBookingInternal(bookings, caller, booking_id, DateOf(start), TimeOf(start)))

UpdateBookingStatusRequest ==
    /\ Ready
    /\ \E caller \in Users, booking_id \in BookingIds(bookings), new_status \in StatusTargets :
        Serve(Request("update_booking_status", caller, booking_id, NoTime, NoTime, 0,
                      NoUser, "", <<>>, new_status),
              UpdateBookingStatus(caller, booking_id, new_status))

\* the time arguments of the two calendar updates: none, one of the two, or a window
UpdateWindows ==
    {<<NoTime, NoTime>>}
    \cup {<<s, NoTime>> : s \in Starts}
    \cup {<<s, s + d>> : s \in Starts, d \in Durations}
    \cup {<<NoTime, Combine(Today, DayLen - 1)>>}

UpdateCalendarBookingRequest ==
    /\ Ready
    /\ \E caller \in Users, booking_id \in BookingIds(bookings), w \in UpdateWindows,
       new_host \in Members \cup {NoUser} :
        Serve(Request("update_calendar_booking", caller, booking_id, w[1], w[2], 0,
                      new_host, "", <<>>, ""),
              UpdateCalendarBooking(caller, booking_id, w[1], w[2], new_host))

TimelineUpdateBookingRequest ==
    /\ Ready
    /\ \E caller \in Users, booking_id \in BookingIds(bookings), w \in UpdateWindows,
       new_host \in Members \cup {NoUser}, department \in {"", Department},
       tz_offset \in TzOffsets :
        Serve(Request("timeline_update_booking", caller, booking_id, w[1], w[2], 0,
                      new_host, department, <<>>, ""),
              TimelineUpdateBooking(caller, booking_id, w[1], w[2], new_host, department,
                                    tz_offset))

CreateSelfBookingRequest ==
    /\ Ready
    /\ Len(bookings) < MaxBookings
    /\ \E caller \in Users, start \in Starts, duration \in Durations :
        Serve(Request("create_self_booking", caller, NoBooking, start, NoTime, duration,
              NoUser, Department, <<>>, ""),
              CreateSelfBooking(caller, DateOf(start), TimeOf(start), duration))

CreateSlotBookingRequest ==
    /\ Ready
    /\ Len(bookings) < MaxBookings
    /\ \E caller \in Users, assigned_to \in Members, start \in Starts, duration \in Durations :
        Serve(Request("create_slot_booking", caller, NoBooking, start, start + duration,
              duration, assigned_to, Department, <<>>, ""),
              CreateSlotBooking(caller, assigned_to, start, start + duration))

CreateTeamMeetingRequest ==
    /\ Ready
    /\ Len(bookings) < MaxBookings
    /\ \E caller \in Users, participants \in ParticipantLists, start \in Starts,
       duration \in Durations :
        Serve(Request("create_team_meeting", caller, NoBooking, start, NoTime, duration,
              NoUser, Department, participants, ""),
              CreateTeamMeeting(caller, participants, DateOf(start), TimeOf(start), duration))

\* the answer is returned and the request is over
EndRequest ==
    /\ last.request.op # "none"
    /\ nops < MaxOps
    /\ inflight = <<>>
    /\ last' = NoLast
    /\ UNCHANGED <<bookings, blockedSlots, rules, workingHours, calendarEvents, customers, nops, inflight>>

-----------------------------------------------------------------------------
(* The sequential system: one request at a time *)

BlockedSlot(user, blocked_date, start_time, end_time, reason) ==
    [user |-> user, blocked_date |-> blocked_date, start_time |-> start_time,
     end_time |-> end_time, reason |-> reason]

NoSettings == [kind |-> "none", days |-> [w \in 0..6 |-> NoDay]]

\* the window of every booking the table starts with
InitStart == Combine(Today, 1)
InitEnd == Combine(Today, 2)

InitHosts ==
    {<<AssignedUser("m1", TRUE)>>, <<AssignedUser("m1", TRUE), AssignedUser("m2", FALSE)>>}

InitBookings ==
    {BookingDoc(booking_status, booking_status, InitStart, InitEnd, InitEnd - InitStart, FALSE,
                hosts, <<>>) :
        booking_status \in FinalizedStatuses \cup {"New Booking", "Confirmed"},
        hosts \in InitHosts}
    \cup
    {BookingDoc(booking_status, booking_status, InitStart, InitEnd, InitEnd - InitStart, TRUE,
                <<AssignedUser("lead", TRUE)>>,
                <<Participant("m1", "Internal"), Participant("m2", "Internal")>>) :
        booking_status \in FinalizedStatuses \cup {"New Booking", "Confirmed"}}

\* The tables a run starts from.  From the empty table and from one open
\* booking MaxOps requests are served, from every other table the last one.
DeepTables ==
    {<<>>,
     <<BookingDoc("New Booking", "New Booking", InitStart, InitEnd, InitEnd - InitStart, FALSE,
                  <<AssignedUser("m1", TRUE), AssignedUser("m2", FALSE)>>, <<>>)>>}

Init ==
    /\ bookings \in {<<>>} \cup {<<b>> : b \in InitBookings}
    /\ blockedSlots = <<BlockedSlot("m2", Today, 2, 3, "")>>
    /\ rules = <<>>
    /\ workingHours = [u \in Users |-> NoSettings]
    /\ calendarEvents = <<>> /\ customers = <<>>
    /\ last = NoLast
    /\ nops = IF bookings \in DeepTables THEN 0 ELSE MaxOps - 1
    /\ inflight = <<>>

Next ==
    \/ ReassignBookingRequest
    \/ RescheduleBookingInternalRequest
    \/ UpdateBookingStatusRequest
    \/ UpdateCalendarBookingRequest
    \/ TimelineUpdateBookingRequest
    \/ CreateSelfBookingRequest
    \/ CreateSlotBookingRequest
    \/ CreateTeamMeetingRequest
    \/ EndRequest

Spec == Init /\ [][Next]_vars

-----------------------------------------------------------------------------
(* check_member_availability on its own: the stores are drawn at the start  *)
(* and one call is answered, of check_member_availability or of one of its  *)
(* checks.  Every row is about member m1.                                   *)

DateOverride(date, available, custom_hours_start, custom_hours_end, reason) ==
    [date |-> date, available |-> available, custom_hours_start |-> custom_hours_start,
     custom_hours_end |-> custom_hours_end, reason |-> reason]

AvailabilityRule(user, buffer_time_before, max_bookings_per_day, date_overrides) ==
    [user |-> user, is_default |-> TRUE, buffer_time_before |-> buffer_time_before,
     buffer_time_after |-> 0, max_bookings_per_day |-> max_bookings_per_day,
     max_bookings_per_week |-> 0, date_overrides |-> date_overrides]

CalendarEvent(user, start_datetime, end_datetime) ==
    [user |-> user, event_title |-> "", start_datetime |-> start_datetime,
     end_datetime |-> end_datetime, is_blocking_availability |-> TRUE,
     event_type |-> "Busy", sync_status |-> "Synced"]

DaySettings(enabled, start, end) ==
    [kind |-> "json",
     days |-> [w \in 0..6 |-> [present |-> TRUE, enabled |-> enabled, start |-> start, end |-> end]]]

AvailBlockedSlots ==
    {<<>>,
     <<BlockedSlot("m1", Today, 1, 3, "")>>,
     <<BlockedSlot("m1", Today, 2, 3, "Lunch")>>}

AvailRules ==
    {<<>>,
     <<AvailabilityRule("m1", 0, 0, <<>>)>>,
     <<AvailabilityRule("m1", 0, 0, <<DateOverride(Today, FALSE, NoTime, NoTime, "")>>)>>,
     <<AvailabilityRule("m1", 0, 0, <<DateOverride(Today, TRUE, 1, 3, "")>>)>>,
     <<AvailabilityRule("m1", 1, 0, <<>>)>>,
     <<AvailabilityRule("m1", 0, 1, <<>>)>>}

AvailSettings == {NoSettings, DaySettings(TRUE, 1, 3), DaySettings(FALSE, NoTime, NoTime)}

AvailBookings ==
    {BookingDoc(booking_status, booking_status, Combine(Today, s), Combine(Today, s + 1), 1,
                FALSE, <<AssignedUser("m1", TRUE)>>, <<>>) :
        booking_status \in {"New Booking", "Confirmed", "Cancelled"}, s \in {1, 2}}
    \cup
    {BookingDoc(booking_status, booking_status, Combine(Today, s), Combine(Today, s + 1), 1,
                TRUE, <<AssignedUser("lead", TRUE)>>, <<Participant("m1", "Internal")>>) :
        booking_status \in {"New Booking", "Confirmed", "Cancelled"}, s \in {1, 2}}

AvailCalendarEvents == {<<>>, <<CalendarEvent("m1", Combine(Today, 2), Combine(Today, 3))>>}

\* Override rows of m1: a closed day, windows (one starting at 00:00), rows
\* without custom hours or with a start only, and a row of another date.
OverrideRows ==
    {DateOverride(Today, FALSE, NoTime, NoTime, "Holiday"),
     DateOverride(Today, TRUE, 0, 2, ""),
     DateOverride(Today, TRUE, 2, 3, ""),
     DateOverride(Today, TRUE, NoTime, NoTime, ""),
     DateOverride(Today, TRUE, 1, NoTime, ""),
     DateOverride(Today - 1, FALSE, NoTime, NoTime, "")}

\* one or two rows, in one rule or spread over the default rule and another
OverrideRules ==
    {<<AvailabilityRule("m1", 0, 0, <<r>>)>> : r \in OverrideRows}
    \cup {<<AvailabilityRule("m1", 0, 0, <<r1, r2>>)>> : r1 \in OverrideRows, r2 \in OverrideRows}
    \cup {<<AvailabilityRule("m1", 0, 0, <<r1>>),
            [AvailabilityRule("m1", 0, 0, <<r2>>) EXCEPT !.is_default = FALSE]>> :
            r1 \in OverrideRows, r2 \in OverrideRows}

\* working_hours_json values: besides AvailSettings, text that does not parse,
\* text that parses to something other than a mapping, an enabled day without
\* hours, and a mapping with Monday only.
MondayOnly ==
    [kind |-> "json",
     days |-> [w \in 0..6 |-> IF w = 0
                               THEN [present |-> TRUE, enabled |-> TRUE, start |-> 0, end |-> 2]
                               ELSE NoDay]]

StoredSettings ==
    AvailSettings
    \cup {[NoSettings EXCEPT !.kind = "invalid"], [NoSettings EXCEPT !.kind = "not_mapping"],
          DaySettings(TRUE, NoTime, NoTime), MondayOnly}

\* Rules with limits and buffers, and bookings of m1 (as host or as internal
\* participant) on the day before, on the day, and in the week after.
LimitRules ==
    {<<[AvailabilityRule("m1", 0, per_day, <<>>) EXCEPT !.max_bookings_per_week = per_week]>> :
        per_day \in 0..2, per_week \in 0..2}

BufferRules ==
    {<<[AvailabilityRule("m1", buffer_before, 0, <<>>) EXCEPT !.buffer_time_after = buffer_after]>> :
        buffer_before \in 0..2, buffer_after \in 0..1}

CountedDates == {Today - 1, Today, Today + 7}

LimitBookings ==
    {BookingDoc(booking_status, booking_status, Combine(d, 0), Combine(d, 1), 1,
                FALSE, <<AssignedUser("m1", TRUE)>>, <<>>) :
        booking_status \in {"New Booking", "Confirmed", "Cancelled"}, d \in CountedDates}
    \cup
    {BookingDoc("Confirmed", "Confirmed", Combine(d, 0), Combine(d, 1), 1,
                TRUE, <<AssignedUser("lead", TRUE)>>, <<Participant("m1", "Internal")>>) :
        d \in CountedDates}

BufferBookings ==
    {BookingDoc(booking_status, booking_status, Combine(Today, 0), Combine(Today, 1), 1,
                FALSE, <<AssignedUser("m1", TRUE)>>, <<>>) :
        booking_status \in {"New Booking", "Confirmed", "Cancelled"}}

Unset == [u \in Users |-> NoSettings]

InitAvail ==
    /\ \/ /\ bookings \in {<<>>} \cup {<<b>> : b \in AvailBookings}
          /\ blockedSlots \in AvailBlockedSlots
          /\ rules \in AvailRules
          /\ workingHours \in {[Unset EXCEPT !["m1"] = s] : s \in AvailSettings}
          /\ calendarEvents \in AvailCalendarEvents /\ customers = <<>>
       \/ /\ bookings = <<>>
          /\ blockedSlots = <<>>
          /\ rules \in {<<>>} \cup OverrideRules
          /\ workingHours \in {[Unset EXCEPT !["m1"] = s] : s \in StoredSettings}
          /\ calendarEvents = <<>> /\ customers = <<>>
       \/ /\ bookings \in {<<b>> : b \in LimitBookings}
                        \cup {<<b1, b2>> : b1 \in LimitBookings, b2 \in LimitBookings}
          /\ blockedSlots = <<>>
          /\ rules \in {<<>>} \cup LimitRules
          /\ workingHours = Unset
          /\ calendarEvents = <<>> /\ customers = <<>>
       \/ /\ bookings \in {<<b>> : b \in BufferBookings}
          /\ blockedSlots = <<>>
          /\ rules \in BufferRules
          /\ workingHours = Unset
          /\ calendarEvents = <<>> /\ customers = <<>>
    /\ last = NoLast
    /\ nops = 0
    /\ inflight = <<>>

CheckMemberAvailabilityRequest ==
    /\ last.request.op = "none"
    /\ \E scheduled_date \in Dates, scheduled_start_time \in Times, duration_minutes \in Durations,
          exclude_booking \in {NoBooking} \cup BookingIds(bookings) :
        /\ last' = [request |-> Request("check_member_availability", "m1", exclude_booking,
                                        Combine(scheduled_date, scheduled_start_time),
                                        Combine(scheduled_date, scheduled_start_time) + duration_minutes,
                                        duration_minutes, NoUser, "", <<>>, ""),
                    ok |-> TRUE,
                    message |-> OpMsg("none", "", <<>>),
                    availability |-> CheckMemberAvailability(bookings, "m1", scheduled_date,
                                         scheduled_start_time, duration_minutes, exclude_booking)]
        /\ nops' = nops + 1
        /\ UNCHANGED <<bookings, blockedSlots, rules, workingHours, calendarEvents, customers, inflight>>

\* check_date_overrides and check_working_hours called on their own, for a
\* candidate [start_time, end_time] within one day
CheckDateOverridesRequest ==
    /\ last.request.op = "none"
    /\ \E scheduled_date \in Dates, start_time \in Times, end_time \in Times :
        /\ start_time < end_time
        /\ last' = [request |-> Request("check_date_overrides", "m1", NoBooking,
                                        Combine(scheduled_date, start_time),
                                        Combine(scheduled_date, end_time),
                                        end_time - start_time, NoUser, "", <<>>, ""),
                    ok |-> TRUE,
                    message |-> OpMsg("none", "", <<>>),
                    availability |-> CheckDateOverrides("m1", scheduled_date, start_time, end_time)]
        /\ nops' = nops + 1
        /\ UNCHANGED <<bookings, blockedSlots, rules, workingHours, calendarEvents, customers, inflight>>

CheckWorkingHoursRequest ==
    /\ last.request.op = "none"
    /\ \E scheduled_date \in Dates, start_time \in Times, end_time \in Times :
        /\ start_time < end_time
        /\ last' = [request |-> Request("check_working_hours", "m1", NoBooking,
                                        Combine(scheduled_date, start_time),
                                        Combine(scheduled_date, end_time),
                                        end_time - start_time, NoUser, "", <<>>, ""),
                    ok |-> TRUE,
                    message |-> OpMsg("none", "", <<>>),
                    availability |-> CheckWorkingHours("m1", scheduled_date, start_time, end_time)]
        /\ nops' = nops + 1
        /\ UNCHANGED <<bookings, blockedSlots, rules, workingHours, calendarEvents, customers, inflight>>

NextAvail ==
    \/ CheckMemberAvailabilityRequest
    \/ CheckDateOverridesRequest
    \/ CheckWorkingHoursRequest

SpecAvail == InitAvail /\ [][NextAvail]_vars

-----------------------------------------------------------------------------
(* Properties of check_member_availability, read off an answered call *)

Answered == last.request.op = "check_member_availability"

\* the blocked slots of the member, on the date asked about, that share time
\* with the window [start_datetime, end_datetime) asked about
OverlappingBlockedSlots(request) ==
    {i \in 1..Len(blockedSlots) :
        /\ blockedSlots[i].user = request.caller
        /\ blockedSlots[i].blocked_date = DateOf(request.start_datetime)
        /\ Combine(blockedSlots[i].blocked_date, blockedSlots[i].start_time) < request.end_datetime
        /\ Combine(blockedSlots[i].blocked_date, blockedSlots[i].end_time) > request.start_datetime}

\* C1: whenever a blocked slot of the member on the requested date overlaps the
\* requested [start, end), the result is unavailable with exactly one
\* conflict, of type blocked_slot, whose message is the reason.
C1_BlockedSlotAlone ==
    (Answered /\ OverlappingBlockedSlots(last.request) # {}) =>
        /\ ~last.availability.available
        /\ Len(last.availability.conflicts) = 1
        /\ last.availability.conflicts[1].type = "blocked_slot"
        /\ last.availability.reason = last.availability.conflicts[1].message

\* the member has no blocked slot, rule, override, working hours or calendar event
Unrestricted ==
    /\ blockedSlots = <<>>
    /\ rules = <<>>
    /\ calendarEvents = <<>> /\ customers = <<>>
    /\ \A u \in Users : workingHours[u].kind = "none"

\* the window asked about ends on the day it starts, before midnight
EndsSameDay(request) == DateOf(request.end_datetime) = DateOf(request.start_datetime)

\* C2: a member without any other restriction who hosts a booking that is not
\* finalized is unavailable, with a booking_conflict naming that booking, for
\* every window overlapping it, and available for a window that starts
\* exactly at the booking's end.  Stated for the windows that end before
\* midnight, where the end time of day is the end of the window.
C2_OpenBookingConflicts ==
    (Answered /\ Unrestricted /\ last.request.booking_id = NoBooking
     /\ EndsSameDay(last.request)) =>
        \A id \in BookingIds(bookings) :
            (/\ last.request.caller \in HostUsers(bookings[id])
             /\ bookings[id].booking_status \notin FinalizedStatuses) =>
                /\ (/\ last.request.start_datetime < bookings[id].end_datetime
                    /\ last.request.end_datetime > bookings[id].start_datetime) =>
                        /\ ~last.availability.available
                        /\ \E i \in 1..Len(last.availability.conflicts) :
                            /\ last.availability.conflicts[i].type = "booking_conflict"
                            /\ last.availability.conflicts[i].booking_id = id
                /\ last.request.start_datetime = bookings[id].end_datetime =>
                        last.availability.available

-----------------------------------------------------------------------------
(* Properties of the sequential system *)

Overlap(a, b) == a.start_datetime < b.end_datetime /\ b.start_datetime < a.end_datetime

Open(b) == b.booking_status \notin FinalizedStatuses

\* C3: no member is an assigned host of two distinct bookings that are not
\* finalized and whose [start_datetime, end_datetime) intervals overlap.
C3_NoDoubleBooking ==
    \A i, j \in BookingIds(bookings) :
        (i # j /\ Open(bookings[i]) /\ Open(bookings[j])
         /\ HostUsers(bookings[i]) \cap HostUsers(bookings[j]) # {}) =>
            ~Overlap(bookings[i], bookings[j])


\* a step that serves a request: the request and its answer are in last'
Serving == last.request.op = "none" /\ last'.request.op # "none"

\* what each entry point takes for a reschedule and for a reassign request
IsReschedule(request) ==
    \/ request.op = "reschedule_booking_internal"
    \/ request.op = "update_calendar_booking"
       /\ (request.start_datetime # NoTime \/ request.end_datetime # NoTime)
    \/ request.op = "timeline_update_booking"
       /\ request.start_datetime # NoTime /\ request.end_datetime # NoTime

IsReassign(request) ==
    \/ request.op = "reassign_booking"
    \/ request.op = "update_calendar_booking" /\ request.new_host # NoUser
    \/ request.op = "timeline_update_booking"
       /\ request.new_host # NoUser /\ request.department # ""

\* the message embeds the status, as stored or in lower case
NamesStatus(message, booking_status) ==
    message.text = booking_status \/ message.text = Lower(booking_status)

SameTimesAndHosts(a, b) ==
    /\ a.start_datetime = b.start_datetime
    /\ a.end_datetime = b.end_datetime
    /\ a.assigned_users = b.assigned_users

\* a reschedule or reassign request for a finalized booking is being served
FinalizedMutation(id) ==
    /\ Serving
    /\ last'.request.booking_id = id
    /\ IsReschedule(last'.request) \/ IsReassign(last'.request)
    /\ bookings[id].booking_status \in FinalizedStatuses

\* C5 (as stated): every reschedule and reassign request for a finalized
\* booking, through any of the four entry points, fails with a message naming
\* the current status and leaves times, hosts and history unchanged.
C5_FinalizedRejectedNamingStatus ==
    [][\A id \in BookingIds(bookings) :
        FinalizedMutation(id) =>
            /\ ~last'.ok
            /\ NamesStatus(last'.message, bookings[id].booking_status)
            /\ SameTimesAndHosts(bookings'[id], bookings[id])
            /\ bookings'[id].booking_history = bookings[id].booking_history]_vars

\* C5 (amended): every such request fails and leaves times, hosts and history
\* unchanged; the message names the current status whenever the caller is
\* permitted to manage the booking, and through update_calendar_booking for
\* every caller.
C5_FinalizedRejected ==
    [][\A id \in BookingIds(bookings) :
        FinalizedMutation(id) =>
            /\ ~last'.ok
            /\ (\/ HasPermissionToManageBooking(last'.request.caller, bookings[id])
                \/ last'.request.op = "update_calendar_booking")
                    => NamesStatus(last'.message, bookings[id].booking_status)
            /\ SameTimesAndHosts(bookings'[id], bookings[id])
            /\ bookings'[id].booking_history = bookings[id].booking_history]_vars

\* a permitted caller's reassign of a 'Sale Approved' booking has been refused
\* with the status in the message
C5_Witness ==
    /\ last.request.op = "reassign_booking"
    /\ last.request.caller = "lead"
    /\ bookings[last.request.booking_id].booking_status = "Sale Approved"
    /\ bookings[last.request.booking_id].booking_history = <<>>
    /\ ~last.ok
    /\ last.message.text = "Sale Approved"

\* C6: update_booking_status on a finalized booking fails for every target
\* status and changes neither the booking's status nor its history.
C6_FinalizedStatusFrozen ==
    [][\A id \in BookingIds(bookings) :
        (/\ Serving
         /\ last'.request.op = "update_booking_status"
         /\ last'.request.booking_id = id
         /\ bookings[id].booking_status \in FinalizedStatuses) =>
            /\ ~last'.ok
            /\ bookings'[id].booking_status = bookings[id].booking_status
            /\ bookings'[id].status = bookings[id].status
            /\ bookings'[id].booking_history = bookings[id].booking_history]_vars

\* update_booking_status(b, 'Cancelled') has succeeded: its history row is there
CancelSucceeded(b) ==
    \E i \in 1..Len(b.booking_history) :
        b.booking_history[i].action = "Status changed to Cancelled"

\* C7: once update_booking_status(b, 'Cancelled') has succeeded, every later
\* reschedule, reassign or status update of b is rejected and b's times and
\* hosts never change again.
C7_CancelledIsTerminal ==
    [][\A id \in BookingIds(bookings) :
        CancelSucceeded(bookings[id]) =>
            /\ SameTimesAndHosts(bookings'[id], bookings[id])
            /\ (/\ Serving
                /\ last'.request.booking_id = id
                /\ \/ IsReschedule(last'.request)
                   \/ IsReassign(last'.request)
                   \/ last'.request.op = "update_booking_status") => ~last'.ok]_vars

\* C8: reassigning a booking with is_internal = True fails for every caller
\* through every reassign entry point and leaves assigned_users unchanged.
C8_TeamMeetingNotReassignable ==
    [][\A id \in BookingIds(bookings) :
        (/\ Serving
         /\ last'.request.booking_id = id
         /\ IsReassign(last'.request)
         /\ bookings[id].is_internal) =>
            /\ ~last'.ok
            /\ bookings'[id].assigned_users = bookings[id].assigned_users]_vars

\* every user in the set is available, by check_member_availability on the
\* table before the step, for the window the booking has after it
AllAvailable(users, moved, id) ==
    \A u \in users :
        CheckMemberAvailability(bookings, u, DateOf(moved.start_datetime),
                                TimeOf(moved.start_datetime),
                                moved.end_datetime - moved.start_datetime, id).available

\* C9: a reschedule through reschedule_booking_internal or
\* update_calendar_booking commits new times only if check_member_availability
\* on the new window, excluding the booking itself, finds every assigned user
\* and, for an internal booking, every internal participant available.
C9_RescheduleChecksEveryone ==
    [][\A id \in BookingIds(bookings) :
        (/\ Serving
         /\ last'.request.booking_id = id
         /\ last'.request.op \in {"reschedule_booking_internal", "update_calendar_booking"}
         /\ IsReschedule(last'.request)
         /\ last'.ok) =>
            /\ AllAvailable(HostUsers(bookings'[id]), bookings'[id], id)
            /\ bookings'[id].is_internal =>
                AllAvailable(InternalParticipantUsers(bookings'[id]), bookings'[id], id)]_vars


\* the listed participants check_member_availability finds unavailable on the
\* table before the step, as positions in the list, and the reason of each
ParticipantAvailability(request, i) ==
    CheckMemberAvailability(bookings, request.participants[i], DateOf(request.start_datetime),
                            TimeOf(request.start_datetime), request.duration, NoBooking)

UnavailablePositions(request) ==
    {i \in 1..Len(request.participants) : ~ParticipantAvailability(request, i).available}

NamedItems(message) == {message.items[k] : k \in 1..Len(message.items)}

Inserted == Len(bookings') = Len(bookings) + 1

\* on success the new document has the caller as its one, primary, host and
\* every listed participant as an Internal participant
TeamMeetingStored(request) ==
    /\ Inserted
    /\ bookings'[Len(bookings')].assigned_users = <<AssignedUser(request.caller, TRUE)>>
    /\ bookings'[Len(bookings')].participants =
            [i \in 1..Len(request.participants) |->
                Participant(request.participants[i], "Internal")]

\* C10 (as stated): create_team_meeting inserts only if every listed
\* participant is available; if any is unavailable nothing is inserted and the
\* error names every unavailable participant with that participant's reason;
\* on success the caller is the single primary host and every listed
\* participant is stored as Internal.
C10_TeamMeetingAllOrNothingNamed ==
    [][(Serving /\ last'.request.op = "create_team_meeting") =>
        /\ Inserted => UnavailablePositions(last'.request) = {}
        /\ UnavailablePositions(last'.request) # {} =>
            /\ ~last'.ok
            /\ bookings' = bookings
            /\ NamedItems(last'.message) =
                    {Item(last'.request.participants[i],
                          ParticipantAvailability(last'.request, i).reason) :
                        i \in UnavailablePositions(last'.request)}
        /\ last'.ok => TeamMeetingStored(last'.request)]_vars

\* the caller may create team meetings and the date is not past: the request
\* gets as far as the availability checks (the fields, the meeting type and
\* the participant list of every request here are valid)
ReachesAvailability(request) ==
    /\ \/ "System Manager" \in UserRoles(request.caller)
       \/ DepartmentLeader(request.department) = request.caller
    /\ DateOf(request.start_datetime) >= Today

\* C10 (amended): as stated, except that the error names the unavailable
\* participants when the request passes the checks that come before the
\* availability loop (caller a System Manager or the department's leader,
\* date not in the past); an earlier check that fails answers with its own
\* error.
C10_TeamMeetingAllOrNothing ==
    [][(Serving /\ last'.request.op = "create_team_meeting") =>
        /\ Inserted => UnavailablePositions(last'.request) = {}
        /\ UnavailablePositions(last'.request) # {} =>
            /\ ~last'.ok
            /\ bookings' = bookings
            /\ ReachesAvailability(last'.request) =>
                NamedItems(last'.message) =
                    {Item(last'.request.participants[i],
                          ParticipantAvailability(last'.request, i).reason) :
                        i \in UnavailablePositions(last'.request)}
        /\ last'.ok => TeamMeetingStored(last'.request)]_vars

\* a team meeting has been refused with both participants named, one for a
\* booking conflict and one for a blocked slot
C10_Witness ==
    /\ last.request.op = "create_team_meeting"
    /\ last.request.participants = <<"m1", "m2">>
    /\ ~last.ok
    /\ Len(last.message.items) = 2
    /\ last.message.items[1].name = "m1"
    /\ last.message.items[1].reason.kind = "booking_conflict"
    /\ last.message.items[2].name = "m2"
    /\ last.message.items[2].reason.kind = "blocked"

-----------------------------------------------------------------------------
(* Two requests served at the same time.  A handler reads availability and  *)
(* writes the booking in two steps, and nothing keeps another request from  *)
(* running between them.                                                    *)

Workers == {1, 2}

NoDoc == BookingDoc("", "", NoTime, NoTime, 0, FALSE, <<>>, <<>>)

\* phase: "idle", "checked" (validated, availability read, document prepared) or "done"
Worker(phase, request, observed, seen, loaded, doc, ok) ==
    [phase |-> phase, request |-> request, observed |-> observed, seen |-> seen,
     loaded |-> loaded, doc |-> doc, ok |-> ok]

IdleWorker == Worker("idle", NoRequest, FALSE, <<>>, NoDoc, NoDoc, FALSE)

RaceWindows == {<<Combine(Today, t), Combine(Today, t) + d>> : t \in {1, 2}, d \in Durations}

\* host m1 asks for a new booking of its own, or moves one it hosts on the calendar
RaceRequests ==
    {Request("create_self_booking", "m1", NoBooking, w[1], NoTime, w[2] - w[1], NoUser,
             Department, <<>>, "") : w \in RaceWindows}
    \cup
    {Request("update_calendar_booking", "m1", id, w[1], w[2], 0, NoUser, "", <<>>, "") :
        id \in BookingIds(bookings), w \in RaceWindows}

\* the handler run on the table as it is now
RaceResult(request) ==
    IF request.op = "create_self_booking"
    THEN CreateSelfBooking(request.caller, DateOf(request.start_datetime),
                           TimeOf(request.start_datetime), request.duration)
    ELSE UpdateCalendarBooking(request.caller, request.booking_id, request.start_datetime,
                               request.end_datetime, request.new_host)

\* what the availability checks of the request answer on the table as it is now
RaceAvailable(request) ==
    IF request.op = "create_self_booking"
    THEN CheckMemberAvailability(bookings, request.caller, DateOf(request.start_datetime),
                                 TimeOf(request.start_datetime), request.duration,
                                 NoBooking).available
    ELSE \A u \in HostUsers(bookings[request.booking_id]) :
            CheckMemberAvailability(bookings, u, DateOf(request.start_datetime),
                                    TimeOf(request.start_datetime),
                                    request.end_datetime - request.start_datetime,
                                    request.booking_id).available

\* the document the handler is about to insert or save
PreparedDoc(request, result) ==
    IF ~result.ok THEN NoDoc
    ELSE IF request.op = "create_self_booking" THEN result.bookings[Len(result.bookings)]
    ELSE result.bookings[request.booking_id]

\* from the start of the handler to the end of its availability checks
RaceCheck(w) ==
    /\ inflight[w].phase = "idle"
    /\ \E request \in RaceRequests :
        LET result == RaceResult(request)
        IN  /\ request.op = "create_self_booking" => Len(bookings) < MaxBookings
            /\ inflight' = [inflight EXCEPT ![w] =
                    Worker(IF result.ok THEN "checked" ELSE "done", request,
                           RaceAvailable(request), bookings,
                           IF request.booking_id = NoBooking THEN NoDoc
                           ELSE bookings[request.booking_id],
                           PreparedDoc(request, result), FALSE)]
    /\ UNCHANGED <<bookings, blockedSlots, rules, workingHours, calendarEvents, customers, last, nops>>

\* save() of a document that was modified since it was loaded is refused
Stale(worker) ==
    /\ worker.request.booking_id # NoBooking
    /\ bookings[worker.request.booking_id] # worker.loaded

\* A write that first runs the handler's checks again on the current table,
\* as it would under a lock; the interleaving properties must not survive it.
RaceWriteRevalidating(w) ==
    /\ inflight[w].phase = "checked"
    /\ bookings' = IF Stale(inflight[w]) \/ ~RaceResult(inflight[w].request).ok THEN bookings
                   ELSE IF inflight[w].request.booking_id = NoBooking
                   THEN Append(bookings, inflight[w].doc)
                   ELSE [bookings EXCEPT ![inflight[w].request.booking_id] = inflight[w].doc]
    /\ inflight' = [inflight EXCEPT ![w].phase = "done",
                                    ![w].ok = ~Stale(inflight[w])
                                              /\ RaceResult(inflight[w].request).ok]
    /\ UNCHANGED <<blockedSlots, rules, workingHours, calendarEvents, customers, last, nops>>

\* booking.insert() / booking.save(): the prepared document is written as it is
RaceWrite(w) ==
    /\ inflight[w].phase = "checked"
    /\ bookings' = IF Stale(inflight[w]) THEN bookings
                   ELSE IF inflight[w].request.booking_id = NoBooking
                   THEN Append(bookings, inflight[w].doc)
                   ELSE [bookings EXCEPT ![inflight[w].request.booking_id] = inflight[w].doc]
    /\ inflight' = [inflight EXCEPT ![w].phase = "done", ![w].ok = ~Stale(inflight[w])]
    /\ UNCHANGED <<blockedSlots, rules, workingHours, calendarEvents, customers, last, nops>>

RaceCheckStep == \E w \in Workers : RaceCheck(w)

RaceWriteStep == \E w \in Workers : RaceWrite(w)

InitRace ==
    /\ bookings \in {<<>>,
                     <<BookingDoc("Confirmed", "Confirmed", InitStart, InitEnd,
                                  InitEnd - InitStart, FALSE, <<AssignedUser("m1", TRUE)>>, <<>>)>>}
    /\ blockedSlots = <<>>
    /\ rules = <<>>
    /\ workingHours = [u \in Users |-> NoSettings]
    /\ calendarEvents = <<>> /\ customers = <<>>
    /\ last = NoLast
    /\ nops = 0
    /\ inflight = [w \in Workers |-> IdleWorker]

NextRace == RaceCheckStep \/ RaceWriteStep

SpecRace == InitRace /\ [][NextRace]_vars

\* C4: the availability read and the write are separate steps with nothing
\* between them: a request whose checks answered available writes its
\* document whatever the table has become since (unless the very document it
\* loaded was saved by someone else), so two interleaved requests for one host
\* and overlapping windows both commit.
C4_WriteWithoutRecheck ==
    [][\A w \in Workers :
        (/\ inflight[w].phase = "checked"
         /\ inflight'[w].phase = "done"
         /\ ~Stale(inflight[w])) =>
            /\ inflight[w].observed
            /\ inflight'[w].ok
            /\ IF inflight[w].request.booking_id = NoBooking
               THEN bookings' = Append(bookings, inflight[w].doc)
               ELSE bookings'[inflight[w].request.booking_id] = inflight[w].doc]_vars

\* A reschedule and a create of host m1 both read availability on the same
\* table, both observed available and both committed: m1 now hosts a
\* 'Confirmed' booking and a new booking on overlapping intervals, and a fresh
\* check of the new booking's window reports the conflict.
C4_Witness ==
    /\ \A w \in Workers : inflight[w].phase = "done" /\ inflight[w].ok /\ inflight[w].observed
    /\ inflight[1].seen = inflight[2].seen
    /\ inflight[1].request.op = "update_calendar_booking"
    /\ inflight[2].request.op = "create_self_booking"
    /\ Len(bookings) = 2
    /\ bookings[1] # inflight[1].seen[1]
    /\ bookings[1].booking_status = "Confirmed"
    /\ HostUsers(bookings[1]) \cap HostUsers(bookings[2]) # {}
    /\ Overlap(bookings[1], bookings[2])
    /\ ~CheckMemberAvailability(bookings, "m1", DateOf(bookings[2].start_datetime),
                                TimeOf(bookings[2].start_datetime), bookings[2].duration,
                                2).available

-----------------------------------------------------------------------------
(* Date overrides and working hours *)

\* the override rows of the member, in any of their rules, for the date asked about
OverrideRowsOn(request) ==
    {<<i, j>> \in (1..Len(rules)) \X (1..2) :
        /\ rules[i].user = request.caller
        /\ j <= Len(rules[i].date_overrides)
        /\ rules[i].date_overrides[j].date = DateOf(request.start_datetime)}

OverrideRow(ij) == rules[ij[1]].date_overrides[ij[2]]

\* the row gives both custom hours: it is a window
IsWindow(row) == row.custom_hours_start # NoTime /\ row.custom_hours_end # NoTime

\* the window asked about lies inside the row's window
InsideWindow(request, row) ==
    /\ IsWindow(row)
    /\ TimeOf(request.start_datetime) >= row.custom_hours_start
    /\ request.end_datetime <= Combine(DateOf(request.start_datetime), row.custom_hours_end)

WorkingHoursRefuse(request) ==
    ~CheckWorkingHours(request.caller, DateOf(request.start_datetime),
                       TimeOf(request.start_datetime), TimeOf(request.end_datetime)).available

\* C11: when the member has an override row for the requested date, in any of
\* their rules, check_member_availability does not consult the working hours:
\* no conflict is of type working_hours (and no failure of the working-hours
\* check comes out), and a request inside an available override window but
\* outside the weekday's working hours is available when nothing but the
\* hours checks conflicts.
C11_OverrideReplacesWorkingHours ==
    (Answered /\ OverrideRowsOn(last.request) # {}) =>
        /\ ~Raised(last.availability)
        /\ \A i \in 1..Len(last.availability.conflicts) :
              last.availability.conflicts[i].type # "working_hours"
        /\ (/\ EndsSameDay(last.request)
            /\ \A ij \in OverrideRowsOn(last.request) : OverrideRow(ij).available
            /\ \E ij \in OverrideRowsOn(last.request) : InsideWindow(last.request, OverrideRow(ij))
            /\ WorkingHoursRefuse(last.request)
            /\ \A i \in 1..Len(last.availability.conflicts) :
                  last.availability.conflicts[i].type \in {"date_override", "working_hours"})
           => last.availability.available

\* the part of C11 about the working hours alone
C11_NoWorkingHoursEntry ==
    (Answered /\ OverrideRowsOn(last.request) # {}) =>
        /\ ~Raised(last.availability)
        /\ \A i \in 1..Len(last.availability.conflicts) :
              last.availability.conflicts[i].type # "working_hours"

\* C12: the verdict of check_date_overrides for the override rows of the
\* date: without rows has_override is false; a row with available = 0 makes
\* the date unavailable whatever the other rows say; otherwise, when no row
\* gives both custom hours, the member is available all day; otherwise the
\* candidate is available exactly when one window contains it
\* (start >= window start and end <= window end).
C12_DateOverrideVerdict ==
    (last.request.op = "check_date_overrides") =>
        /\ (OverrideRowsOn(last.request) = {}) => ~last.availability.has_override
        /\ (\E ij \in OverrideRowsOn(last.request) : ~OverrideRow(ij).available)
              => ~last.availability.available
        /\ (/\ OverrideRowsOn(last.request) # {}
            /\ \A ij \in OverrideRowsOn(last.request) : OverrideRow(ij).available)
              => last.availability.available =
                    \/ \A ij \in OverrideRowsOn(last.request) : ~IsWindow(OverrideRow(ij))
                    \/ \E ij \in OverrideRowsOn(last.request) :
                          InsideWindow(last.request, OverrideRow(ij))

\* the stored entry of the weekday asked about, and its bounds
DayAsked(request) == workingHours[request.caller].days[Weekday(DateOf(request.start_datetime))]

InsideWorkingHours(request, day) ==
    /\ TimeOf(request.start_datetime) >= (IF day.start = NoTime THEN 0 ELSE day.start)
    /\ TimeOf(request.end_datetime) <= (IF day.end = NoTime THEN DayLen - 1 ELSE day.end)

\* C13: check_working_hours answers available, and does not raise, for every
\* date and time when the stored schedule is missing, empty or malformed
\* (text that does not parse, or a parsed value that is not a weekday
\* mapping); with a valid schedule a disabled weekday is unavailable and an
\* enabled weekday is available exactly when the candidate lies inside
\* [work_start, work_end].
C13_WorkingHoursFallback ==
    (last.request.op = "check_working_hours") =>
        /\ (workingHours[last.request.caller].kind # "json")
              => (last.availability.available /\ ~Raised(last.availability))
        /\ (workingHours[last.request.caller].kind = "json")
              => IF DayAsked(last.request).present /\ DayAsked(last.request).enabled
                 THEN last.availability.available =
                        InsideWorkingHours(last.request, DayAsked(last.request))
                 ELSE ~last.availability.available

-----------------------------------------------------------------------------
(* The list of conflicts *)

\* the place of a conflict type in the order of the checks
Rank(type) ==
    CASE type \in {"date_override", "working_hours"} -> 1
      [] type = "booking_conflict" -> 2
      [] type = "calendar_event" -> 3
      [] type = "buffer_time" -> 4
      [] type = "availability_rule" -> 5
      [] OTHER -> 0

Count(conflicts, types) == Cardinality({i \in 1..Len(conflicts) : conflicts[i].type \in types})

\* what each of the checks 4. to 7. finds for the request, taken on its own
FoundByLaterChecks(request) ==
    [booking_conflict |->
        Len(CheckBookingConflicts(bookings, request.caller, DateOf(request.start_datetime),
                                  TimeOf(request.start_datetime), TimeOf(request.end_datetime),
                                  request.booking_id)),
     calendar_event |->
        Len(CheckCalendarEventConflicts(request.caller, request.start_datetime,
                                        request.end_datetime)),
     buffer_time |->
        Len(CheckBufferTimeConflicts(bookings, request.caller, request.start_datetime,
                                     request.end_datetime, request.booking_id)),
     availability_rule |->
        IF CheckAvailabilityRules(bookings, request.caller,
                                  DateOf(request.start_datetime)).available THEN 0 ELSE 1]

InOrder(conflicts, found) ==
    /\ \A i \in 1..Len(conflicts) : \A j \in i..Len(conflicts) :
          Rank(conflicts[i].type) <= Rank(conflicts[j].type)
    /\ \A i \in 1..Len(conflicts) : Rank(conflicts[i].type) > 0
    /\ Count(conflicts, {"date_override", "working_hours"}) <= 1
    /\ Count(conflicts, {"booking_conflict"}) = found.booking_conflict
    /\ Count(conflicts, {"calendar_event"}) = found.calendar_event
    /\ Count(conflicts, {"buffer_time"}) = found.buffer_time
    /\ Count(conflicts, {"availability_rule"}) = found.availability_rule
    /\ found.availability_rule <= 1

\* C14: every answer check_member_availability returns has available =
\* (conflicts is empty) and reason = the message of the first conflict (none
\* when empty); when no blocked slot hits, the conflicts come in the order of
\* the checks: at most one of date_override or working_hours, then the
\* booking conflicts, the calendar events, the buffer conflicts and at most
\* one availability_rule, each later check adding all it finds whatever
\* came before.
C14_ConflictsInOrder ==
    (Answered /\ ~Raised(last.availability)) =>
        /\ last.availability.available = (last.availability.conflicts = <<>>)
        /\ last.availability.reason =
              (IF last.availability.conflicts = <<>> THEN NoMsg
               ELSE last.availability.conflicts[1].message)
        /\ (Count(last.availability.conflicts, {"blocked_slot"}) = 0)
              => InOrder(last.availability.conflicts, FoundByLaterChecks(last.request))

C14_Witness ==
    /\ Answered
    /\ ~last.availability.available
    /\ Len(last.availability.conflicts) = 4
    /\ last.availability.conflicts[1].type = "working_hours"
    /\ last.availability.conflicts[2].type = "booking_conflict"
    /\ last.availability.conflicts[3].type = "calendar_event"
    /\ last.availability.conflicts[4].type = "availability_rule"
    /\ last.availability.reason = last.availability.conflicts[1].message

-----------------------------------------------------------------------------
(* Limits and buffers *)

\* the bookings of the member, as host or internal participant, that are not
\* finalized and start on a date from first_date to last_date
ActiveOn(member, first_date, last_date) ==
    {id \in BookingIds(bookings) :
        /\ member \in HostUsers(bookings[id]) \cup InternalParticipantUsers(bookings[id])
        /\ bookings[id].booking_status \notin FinalizedStatuses
        /\ DateOf(bookings[id].start_datetime) \in first_date..last_date}

\* the Monday of the week of a date
Monday(d) == d - Weekday(d)

\* a limit of n (0: unset) is reached by the count
LimitReached(n, count) == n # 0 /\ count >= n

\* the call returned, and not from the blocked-slot check
FullyChecked ==
    /\ Answered
    /\ ~Raised(last.availability)
    /\ Count(last.availability.conflicts, {"blocked_slot"}) = 0

\* C15: with max_bookings_per_day = N on the member's default rule, a request
\* on date D gets an availability_rule conflict exactly when the member has
\* at least N distinct active bookings (as host or internal participant)
\* starting on D, bookings of other dates not counting; max_bookings_per_week
\* does the same over the Monday-Sunday week of D; an unset limit never
\* rejects.
C15_QuotaBoundary ==
    (FullyChecked /\ MemberRules(last.request.caller) # <<>>) =>
        (Count(last.availability.conflicts, {"availability_rule"}) = 1) =
            \/ LimitReached(FirstRule(last.request.caller).max_bookings_per_day,
                            Cardinality(ActiveOn(last.request.caller,
                                                 DateOf(last.request.start_datetime),
                                                 DateOf(last.request.start_datetime))))
            \/ LimitReached(FirstRule(last.request.caller).max_bookings_per_week,
                            Cardinality(ActiveOn(last.request.caller,
                                                 Monday(DateOf(last.request.start_datetime)),
                                                 Monday(DateOf(last.request.start_datetime)) + 6)))

\* the active bookings of the member that end, on the day of the request, at
\* or before the start asked about; the booking being moved is left out
EarlierSameDay(request) ==
    {id \in ActiveOn(request.caller, DateOf(request.start_datetime),
                     DateOf(request.start_datetime)) :
        /\ id # request.booking_id
        /\ bookings[id].end_datetime <= request.start_datetime}

BufferConflictsNaming(conflicts, id) ==
    {i \in 1..Len(conflicts) : conflicts[i].type = "buffer_time" /\ conflicts[i].message.ref = id}

\* C16: for a member whose default rule has buffer_time_before = b > 0, a
\* candidate starting exactly b after the end of an active same-day booking
\* of the member gets no buffer_time conflict from it, and one starting g
\* after that end, 0 <= g < b, gets a buffer_time conflict on the 'before'
\* side; with both buffers zero, or without a rule, there is no buffer_time
\* conflict at all.
C16_BufferBoundary ==
    FullyChecked =>
        IF MemberRules(last.request.caller) = <<>>
        THEN Count(last.availability.conflicts, {"buffer_time"}) = 0
        ELSE /\ (/\ FirstRule(last.request.caller).buffer_time_before = 0
                 /\ FirstRule(last.request.caller).buffer_time_after = 0)
                    => Count(last.availability.conflicts, {"buffer_time"}) = 0
             /\ (FirstRule(last.request.caller).buffer_time_before > 0) =>
                    \A id \in EarlierSameDay(last.request) :
                        IF last.request.start_datetime - bookings[id].end_datetime
                              < FirstRule(last.request.caller).buffer_time_before
                        THEN \E i \in BufferConflictsNaming(last.availability.conflicts, id) :
                                last.availability.conflicts[i].message.kind = "buffer_before"
                        ELSE (last.request.start_datetime - bookings[id].end_datetime
                                = FirstRule(last.request.caller).buffer_time_before)
                             => BufferConflictsNaming(last.availability.conflicts, id) = {}

-----------------------------------------------------------------------------
(* A booking that no longer blocks *)

\* what check_member_availability answers a host asking about the booking's
\* own window
AnswerOnOwnWindow(id, host) ==
    CheckMemberAvailability(bookings, host, DateOf(bookings[id].start_datetime),
                            TimeOf(bookings[id].start_datetime), bookings[id].duration, NoBooking)

\* the conflicts of an answer that come from booking id
ConflictsFrom(availability, id) ==
    {i \in 1..Len(availability.conflicts) :
        \/ availability.conflicts[i].booking_id = id
        \/ /\ availability.conflicts[i].type = "buffer_time"
           /\ availability.conflicts[i].message.ref = id}

\* C17: a booking in a finalized status produces no booking conflict and no
\* buffer conflict; and once update_booking_status has cancelled a booking,
\* check_member_availability for one of its hosts on the booking's window is
\* not blocked by that booking.
C17_CancelledNoLongerBlocks ==
    \A id \in BookingIds(bookings) :
        (\/ bookings[id].booking_status \in FinalizedStatuses
         \/ CancelSucceeded(bookings[id])) =>
            \A host \in HostUsers(bookings[id]) :
                ConflictsFrom(AnswerOnOwnWindow(id, host), id) = {}

-----------------------------------------------------------------------------
(* Who may change a booking through the calendar *)

LeadsDepartmentOf(caller, b) == b.department # "" /\ DepartmentLeader(b.department) = caller

MayChangeTimes(caller, b) ==
    \/ "System Manager" \in UserRoles(caller)
    \/ LeadsDepartmentOf(caller, b)
    \/ caller \in HostUsers(b)

MayChangeHost(caller, b) ==
    \/ "System Manager" \in UserRoles(caller)
    \/ LeadsDepartmentOf(caller, b)

\* C18: update_calendar_booking changes a booking's times only for a System
\* Manager, a leader of the booking's department or an assigned host, and
\* its host only for a System Manager or a leader of the booking's
\* department; a request of any other caller, whatever their roles, is
\* rejected and the booking is unchanged.
C18_CalendarUpdatePermissions ==
    [][(Serving /\ last'.request.op = "update_calendar_booking") =>
        /\ (\/ bookings'[last'.request.booking_id].start_datetime
                  # bookings[last'.request.booking_id].start_datetime
            \/ bookings'[last'.request.booking_id].end_datetime
                  # bookings[last'.request.booking_id].end_datetime)
              => MayChangeTimes(last'.request.caller, bookings[last'.request.booking_id])
        /\ (bookings'[last'.request.booking_id].assigned_users
                  # bookings[last'.request.booking_id].assigned_users)
              => MayChangeHost(last'.request.caller, bookings[last'.request.booking_id])
        /\ (\/ /\ IsReschedule(last'.request)
               /\ ~MayChangeTimes(last'.request.caller, bookings[last'.request.booking_id])
            \/ /\ IsReassign(last'.request)
               /\ ~MayChangeHost(last'.request.caller, bookings[last'.request.booking_id]))
              => (~last'.ok /\ bookings' = bookings)]_vars

-----------------------------------------------------------------------------
(* Rescheduling into the past *)

\* the start the booking has if the request is carried out: the start asked
\* for, or the booking's own when the request gives only a new end
NewStart(request, b) ==
    IF request.start_datetime # NoTime THEN request.start_datetime ELSE b.start_datetime

\* C19: through reschedule_booking_internal and update_calendar_booking, a
\* reschedule whose new start is earlier than the current time is rejected
\* and leaves the booking unchanged; this covers a new start earlier on the
\* current day and a request that gives only a new end.
C19_NoRescheduleIntoPast ==
    [][(/\ Serving
        /\ last'.request.op \in {"reschedule_booking_internal", "update_calendar_booking"}
        /\ IsReschedule(last'.request)
        /\ NewStart(last'.request, bookings[last'.request.booking_id]) < Now)
          => (~last'.ok /\ bookings' = bookings)]_vars

-----------------------------------------------------------------------------
(* The history of a booking *)

\* history h2 is history h1 with n entries appended
Extends(h2, h1, n) == Len(h2) = Len(h1) + n /\ SubSeq(h2, 1, Len(h1)) = h1

\* the entry names an action and the user who did it
Records(entry, user) ==
    entry.action # "" /\ (entry.performed_by = user \/ entry.action_by = user)

\* a request for a reschedule, a reassign or a status update through one of
\* the four entry points
IsMutation(request) ==
    /\ request.op \in {"reschedule_booking_internal", "reassign_booking",
                       "update_booking_status", "update_calendar_booking"}
    /\ \/ IsReschedule(request)
       \/ IsReassign(request)
       \/ request.op = "update_booking_status"

\* C20: every successful reschedule, reassign and status update, through
\* reschedule_booking_internal, reassign_booking, update_booking_status and
\* update_calendar_booking, appends exactly one booking_history entry that
\* records the action and the actor; no step removes or alters an entry.
C20_HistoryGrowsByOne ==
    [][\A id \in BookingIds(bookings) :
        /\ \E n \in 0..2 : Extends(bookings'[id].booking_history, bookings[id].booking_history, n)
        /\ (/\ Serving
            /\ last'.ok
            /\ last'.request.booking_id = id
            /\ IsMutation(last'.request))
              => /\ Extends(bookings'[id].booking_history, bookings[id].booking_history, 1)
                 /\ Records(bookings'[id].booking_history[Len(bookings'[id].booking_history)],
                            last'.request.caller)]_vars

-----------------------------------------------------------------------------
(* Reassigning bookings whose host rows come in every shape: no row, a      *)
(* flagged first row, no flagged row, a flagged row that is not the first.  *)

HostRows ==
    {<<>>,
     <<AssignedUser("m1", TRUE)>>,
     <<AssignedUser("m1", TRUE), AssignedUser("m2", FALSE)>>,
     <<AssignedUser("m1", FALSE), AssignedUser("m2", FALSE)>>,
     <<AssignedUser("m1", FALSE), AssignedUser("m2", TRUE)>>}

InitHostRows ==
    /\ bookings \in {<<BookingDoc("New Booking", "New Booking", InitStart, InitEnd,
                                  InitEnd - InitStart, FALSE, hosts, <<>>)>> : hosts \in HostRows}
    /\ blockedSlots = <<>>
    /\ rules = <<>>
    /\ workingHours = Unset
    /\ calendarEvents = <<>> /\ customers = <<>>
    /\ last = NoLast
    /\ nops = 0
    /\ inflight = <<>>

NextHostRows ==
    \/ ReassignBookingRequest
    \/ UpdateCalendarBookingRequest
    \/ EndRequest

SpecHostRows == InitHostRows /\ [][NextHostRows]_vars

\* the rows of b with the user of its primary-host row replaced, or with a
\* flagged row for the user when b has no row
WithPrimaryHost(b, user) ==
    IF Len(b.assigned_users) = 0 THEN <<AssignedUser(user, TRUE)>>
    ELSE [i \in 1..Len(b.assigned_users) |->
            IF i = PrimaryIndex(b) THEN [b.assigned_users[i] EXCEPT !.user = user]
            ELSE b.assigned_users[i]]

\* C21: a successful reassign, through reassign_booking or
\* update_calendar_booking, changes only the user of the primary-host row
\* (the flagged row, or the first row when none is flagged) and appends a
\* flagged row only when the booking has no rows: afterwards the new host is
\* the primary host, the other rows and booking_status are as before, and so
\* are the times unless the request also reschedules.
C21_ReassignChangesPrimaryRowOnly ==
    [][(/\ Serving
        /\ last'.ok
        /\ last'.request.op \in {"reassign_booking", "update_calendar_booking"}
        /\ IsReassign(last'.request))
          => /\ bookings'[last'.request.booking_id].assigned_users =
                    WithPrimaryHost(bookings[last'.request.booking_id], last'.request.new_host)
             /\ PrimaryUser(bookings'[last'.request.booking_id]) = last'.request.new_host
             /\ bookings'[last'.request.booking_id].booking_status =
                    bookings[last'.request.booking_id].booking_status
             /\ ~IsReschedule(last'.request) =>
                    /\ bookings'[last'.request.booking_id].start_datetime =
                          bookings[last'.request.booking_id].start_datetime
                    /\ bookings'[last'.request.booking_id].end_datetime =
                          bookings[last'.request.booking_id].end_datetime]_vars

-----------------------------------------------------------------------------
(* The window of a stored booking *)

\* C22: every stored booking has start_datetime < end_datetime, in every
\* reachable state: after the creates, with the start and end the caller of
\* create_slot_booking supplies, and after update_calendar_booking is given
\* only a new start or only a new end.
C22_StartBeforeEnd ==
    \A id \in BookingIds(bookings) :
        bookings[id].start_datetime < bookings[id].end_datetime

-----------------------------------------------------------------------------
(* MM User Blocked Slot: the validated writes. A slot's name is its place   *)
(* in the table; a document that was not inserted yet has no name.          *)

MaxSlots == 2     \* rows in the blocked-slot table
NoSlot == 0       \* self.name of a new document
SlotCallers == {"admin", "lead", "m1"}
SlotUsers == {"m1", "m2"}
Reasons == {"", " ", "Lunch"}

Strip(s) == IF s = " " THEN "" ELSE s           \* str.strip()

\* validate_reason: TRUE when it does not throw
ValidateReason(doc) == ~(doc.reason = "" \/ Strip(doc.reason) = "")

\* validate_times
ValidateTimes(doc) == ~(doc.start_time >= doc.end_time)

\* the overlap test with the touching slots taken as overlapping
SlotsOverlapOrTouch(new_start, new_end, existing_start, existing_end) ==
    ~(new_end < existing_start \/ new_start > existing_end)

\* the overlap test of validate_no_overlap_with_own_blocked_slots
SlotsOverlap(new_start, new_end, existing_start, existing_end) ==
    ~(new_end <= existing_start \/ new_start >= existing_end)

\* the slots validate_no_overlap_with_own_blocked_slots throws for: the
\* existing slots of the user and date, other than the document itself,
\* that the document overlaps
OverlappingOwnSlots(slots, doc, name) ==
    {i \in 1..Len(slots) :
        /\ slots[i].user = doc.user
        /\ slots[i].blocked_date = doc.blocked_date
        /\ i # name
        /\ SlotsOverlap(doc.start_time, doc.end_time, slots[i].start_time, slots[i].end_time)}

\* validate_user_permission
ValidateUserPermission(doc, current_user) ==
    LET led_depts == {d \in Departments : DepartmentLeader(d) = current_user}
        user_in_led_dept == \E d \in led_depts : doc.user \in ActiveMembers(d)
    IN  \/ "System Manager" \in UserRoles(current_user)
        \/ /\ "MM Department Leader" \in UserRoles(current_user)
           /\ led_depts # {}
           /\ (user_in_led_dept \/ doc.user = current_user)
        \/ ~(doc.user # current_user)

\* MMUserBlockedSlot.validate: the check that throws, "none" when none does
Validate(slots, doc, name, current_user) ==
    IF ~ValidateReason(doc) THEN "reason"
    ELSE IF ~ValidateTimes(doc) THEN "times"
    ELSE IF OverlappingOwnSlots(slots, doc, name) # {} THEN "overlap"
    ELSE IF ~ValidateUserPermission(doc, current_user) THEN "permission"
    ELSE "none"

\* the request with the row as it was before the write (get_doc_before_save)
NoSlotDoc == BlockedSlot(NoUser, 0, NoTime, NoTime, "")
SlotRequest(op, name, doc, before) == [op |-> op, name |-> name, doc |-> doc, before |-> before]

\* The write is one transaction: a throw of validate leaves the table as it
\* was. The overlap message names the first overlapping slot the query
\* returned, and the query has no order of its own.
WriteBlockedSlot(op, name, doc, current_user, written) ==
    LET thrown == Validate(blockedSlots, doc, name, current_user)
        named == IF thrown = "overlap" THEN OverlappingOwnSlots(blockedSlots, doc, name) ELSE {NoSlot}
    IN  /\ blockedSlots' = IF thrown = "none" THEN written ELSE blockedSlots
        /\ \E slot \in named :
              last' = [request |-> SlotRequest(op, name, doc, IF name = NoSlot THEN NoSlotDoc ELSE blockedSlots[name]), ok |-> thrown = "none",
                       message |-> [kind |-> thrown, slot |-> slot],
                       availability |-> NoAvailability]
        /\ UNCHANGED <<bookings, rules, workingHours, calendarEvents, customers, nops, inflight>>

\* doc.insert() of a new blocked slot
InsertBlockedSlot ==
    /\ last.request.op = "none"
    /\ Len(blockedSlots) < MaxSlots
    /\ \E current_user \in SlotCallers, user \in SlotUsers, blocked_date \in Dates,
          start_time \in Times, end_time \in Times, reason \in Reasons :
          LET doc == BlockedSlot(user, blocked_date, start_time, end_time, reason)
          IN  WriteBlockedSlot("insert", NoSlot, doc, current_user, Append(blockedSlots, doc))

\* doc.save() of an existing blocked slot with changed fields
SaveBlockedSlot ==
    /\ last.request.op = "none"
    /\ \E name \in 1..Len(blockedSlots), current_user \in SlotCallers, user \in SlotUsers,
          blocked_date \in Dates, start_time \in Times, end_time \in Times, reason \in Reasons :
          LET doc == BlockedSlot(user, blocked_date, start_time, end_time, reason)
          IN  WriteBlockedSlot("save", name, doc, current_user, [blockedSlots EXCEPT ![name] = doc])

InitBlockedSlots ==
    /\ bookings = <<>> /\ blockedSlots = <<>> /\ rules = <<>> /\ workingHours = Unset
    /\ calendarEvents = <<>> /\ customers = <<>> /\ last = NoLast /\ nops = 0 /\ inflight = <<>>

NextBlockedSlots == InsertBlockedSlot \/ SaveBlockedSlot \/ EndRequest

SpecBlockedSlots == InitBlockedSlots /\ [][NextBlockedSlots]_vars

-----------------------------------------------------------------------------
(* C23 *)

SameOwner(a, b) == a.user = b.user /\ a.blocked_date = b.blocked_date
Intersect(a, b) == a.start_time < b.end_time /\ b.start_time < a.end_time
Touch(a, b) == a.end_time = b.start_time \/ b.end_time = a.start_time

WellFormedSlots(slots) ==
    /\ \A i \in 1..Len(slots) : slots[i].start_time < slots[i].end_time /\ slots[i].reason \notin {"", " "}
    /\ \A i, j \in 1..Len(slots) : (i # j /\ SameOwner(slots[i], slots[j])) => ~Intersect(slots[i], slots[j])

SlotWritten == last.request.op = "none" /\ last'.request.op \in {"insert", "save"}

\* C23: after every validated insert or edit of a blocked slot the table is
\* well formed (no two slots of a member on a date overlap, every slot has
\* start_time < end_time and a reason that is not blank); a rejected write
\* leaves the table as it was; a write is rejected for an overlap only when
\* another slot of the same member and date, never the edited slot itself
\* and never one that merely touches, overlaps the new window.
C23_BlockedSlotWrites ==
    [][SlotWritten =>
        /\ WellFormedSlots(blockedSlots')
        /\ ~last'.ok => blockedSlots' = blockedSlots
        /\ last'.message.kind = "overlap" =>
              /\ last'.message.slot \in 1..Len(blockedSlots)
              /\ last'.message.slot # last'.request.name
              /\ SameOwner(blockedSlots[last'.message.slot], last'.request.doc)
              /\ Intersect(blockedSlots[last'.message.slot], last'.request.doc)]_vars

\* an accepted edit whose new window overlaps the window the slot had and
\* touches the other slot of the member on that date
C23_Witness ==
    /\ last.request.op = "save" /\ last.ok
    /\ SameOwner(last.request.before, last.request.doc)
    /\ Intersect(last.request.before, last.request.doc)
    /\ last.request.before # last.request.doc
    /\ \E k \in 1..Len(blockedSlots) :
          /\ k # last.request.name
          /\ SameOwner(blockedSlots[k], last.request.doc)
          /\ Touch(blockedSlots[k], last.request.doc)

-----------------------------------------------------------------------------
(* MM Customer: find_or_create_customer, the validated writes of the        *)
(* document, and the customer part of the create flows. A customer is its   *)
(* primary_email and the rows of its two child tables; every customer_name  *)
(* is valid. "<tab>" in a phone number stands for a tab character.          *)

MaxCustomers == 2     \* documents in the customer table
NoCustomer == 0       \* no customer found, self.name of a new document
NoEmail == ""
NoPhone == ""
Emails == {"ann@x.dk", "Ann@x.dk", "a_n@x.dk", "bob@x.dk"}
Phones == {"1234", "12 34", "12<tab>34"}

Customer(primary_email, email_addresses, phone_numbers) ==
    [primary_email |-> primary_email, email_addresses |-> email_addresses, phone_numbers |-> phone_numbers]

LowerEmail(email) == IF email = "Ann@x.dk" THEN "ann@x.dk" ELSE email      \* str.lower(), SQL LOWER()

\* primary_email LIKE pattern: without regard to case, "_" in the pattern standing for any one character
Like(value, pattern) ==
    LowerEmail(value) = LowerEmail(pattern) \/ (LowerEmail(pattern) = "a_n@x.dk" /\ LowerEmail(value) = "ann@x.dk")

\* re.sub(r'[\s\-\(\)\+]', '', phone): all white space goes
PhoneDigits(phone) == IF phone \in {"12 34", "12<tab>34"} THEN "1234" ELSE phone

\* REPLACE(REPLACE(...(phone_number, ' ', '')...)): of the white space only the blank goes
SqlPhoneDigits(phone_number) == IF phone_number = "12 34" THEN "1234" ELSE phone_number

\* The queries: each gives the customers of which LIMIT 1 returns one.
PrimaryLike(store, email) == {c \in 1..Len(store) : Like(store[c].primary_email, email)}

PrimaryEquals(store, email_lower, name) ==
    {c \in 1..Len(store) : c # name /\ LowerEmail(store[c].primary_email) = email_lower}

ChildEmail(store, email_lower, name) ==
    {c \in 1..Len(store) : c # name /\ \E i \in 1..Len(store[c].email_addresses) :
                                          LowerEmail(store[c].email_addresses[i]) = email_lower}

ChildPhone(store, phone_digits, name) ==
    {c \in 1..Len(store) : c # name /\ \E i \in 1..Len(store[c].phone_numbers) :
                                          SqlPhoneDigits(store[c].phone_numbers[i]) = phone_digits}

\* rows of a child table that repeat an earlier row
Repeats(keys) == \E i, j \in 1..Len(keys) : i < j /\ keys[i] = keys[j]

\* the first row of the document's child table that another customer holds
FirstTaken(taken) == CHOOSE i \in taken : \A j \in taken : i <= j

Validation(thrown, named, doc) == [thrown |-> thrown, named |-> named, doc |-> doc]

\* MMCustomer.validate: the check that throws with the customers its message
\* may name, or "none" with the document as ensure_primary_email_in_list leaves it
ValidateCustomer(store, doc, name) ==
    LET emails == doc.email_addresses
        phones == doc.phone_numbers
        primary == LowerEmail(doc.primary_email)
        taken_emails == {i \in 1..Len(emails) : emails[i] # NoEmail /\
                            (ChildEmail(store, LowerEmail(emails[i]), name) # {} \/ PrimaryEquals(store, LowerEmail(emails[i]), name) # {})}
        taken_phones == {i \in 1..Len(phones) : phones[i] # NoPhone /\
                            ChildPhone(store, PhoneDigits(phones[i]), name) # {}}
        primary_exists == \E i \in 1..Len(emails) : LowerEmail(emails[i]) = primary
    IN  IF doc.primary_email = NoEmail THEN Validation("primary_email_required", {}, doc)
        ELSE IF PrimaryEquals(store, primary, name) # {}
        THEN Validation("primary_email_used", PrimaryEquals(store, primary, name), doc)
        ELSE IF ChildEmail(store, primary, name) # {}
        THEN Validation("primary_email_associated", ChildEmail(store, primary, name), doc)
        ELSE IF Repeats([i \in 1..Len(emails) |-> LowerEmail(emails[i])]) THEN Validation("duplicate_email", {}, doc)
        ELSE IF taken_emails # {}
        THEN LET email_lower == LowerEmail(emails[FirstTaken(taken_emails)])
             IN  IF ChildEmail(store, email_lower, name) # {}
                 THEN Validation("email_associated", ChildEmail(store, email_lower, name), doc)
                 ELSE Validation("email_is_primary", PrimaryEquals(store, email_lower, name), doc)
        ELSE IF Repeats([i \in 1..Len(phones) |-> PhoneDigits(phones[i])]) THEN Validation("duplicate_phone", {}, doc)
        ELSE IF taken_phones # {}
        THEN Validation("phone_associated",
                        ChildPhone(store, PhoneDigits(phones[FirstTaken(taken_phones)]), name), doc)
        ELSE Validation("none", {},
                        IF primary_exists THEN doc
                        ELSE [doc EXCEPT !.email_addresses = Append(@, doc.primary_email)])

\* what a call leaves: the customer it returns, the table, and what it threw
Resolved(customer_id, created, store, thrown, named) ==
    [ok |-> thrown = "none", customer_id |-> customer_id, created |-> created, customers |-> store,
     thrown |-> thrown, named |-> named]

\* doc.insert(): a throw of validate leaves the table as it was
InsertCustomer(store, doc) ==
    LET v == ValidateCustomer(store, doc, NoCustomer)
    IN  IF v.thrown = "none" THEN Resolved(Len(store) + 1, TRUE, Append(store, v.doc), "none", {})
        ELSE Resolved(NoCustomer, FALSE, store, v.thrown, v.named)

\* doc.save() of customer name
SaveCustomer(store, name, doc) ==
    LET v == ValidateCustomer(store, doc, name)
    IN  IF v.thrown = "none" THEN Resolved(name, FALSE, [store EXCEPT ![name] = v.doc], "none", {})
        ELSE Resolved(NoCustomer, FALSE, store, v.thrown, v.named)

\* find_or_create_customer: the outcomes the call can have
FindOrCreateCustomer(store, email_given, phone) ==
    LET email == LowerEmail(email_given)
        by_primary == PrimaryLike(store, email)
        by_child == ChildEmail(store, email, NoCustomer)
        by_phone == IF phone # NoPhone THEN ChildPhone(store, PhoneDigits(phone), NoCustomer) ELSE {}
        phone_numbers == IF phone # NoPhone THEN <<phone>> ELSE <<>>
    IN  IF email_given = NoEmail THEN {Resolved(NoCustomer, FALSE, store, "email_required", {})}
        ELSE IF by_primary # {} THEN {Resolved(c, FALSE, store, "none", {}) : c \in by_primary}
        ELSE IF by_child # {} THEN {Resolved(c, FALSE, store, "none", {}) : c \in by_child}
        ELSE IF by_phone # {}
        THEN {SaveCustomer(store, c, [store[c] EXCEPT !.email_addresses = Append(@, email)]) : c \in by_phone}
        ELSE {InsertCustomer(store, Customer(email, <<email>>, phone_numbers))}

\* MMCustomer.find_by_email: the customers it can return, none for None
FindByEmail(store, email) ==
    IF email = NoEmail THEN {}
    ELSE IF PrimaryLike(store, LowerEmail(email)) # {} THEN PrimaryLike(store, LowerEmail(email))
    ELSE ChildEmail(store, LowerEmail(email), NoCustomer)

\* the customer of a booking created without customer_id (create_self_booking,
\* create_slot_booking)
BookingCustomer(store, customer_email, customer_phone) ==
    LET existing == FindByEmail(store, customer_email)
        phone_numbers == IF customer_phone # NoPhone THEN <<customer_phone>> ELSE <<>>
    IN  IF existing # {} THEN {Resolved(c, FALSE, store, "none", {}) : c \in existing}
        ELSE {InsertCustomer(store, Customer(customer_email, <<>>, phone_numbers))}

CustomerRequest(op, name, email, phone, doc) ==
    [op |-> op, name |-> name, email |-> email, phone |-> phone, doc |-> doc]

NoCustomerDoc == Customer(NoEmail, <<>>, <<>>)

\* the call is one transaction; the message of a throw names one of the customers found
ServeCustomer(request, result, store) ==
    /\ Len(result.customers) <= MaxCustomers
    /\ customers' = result.customers
    /\ bookings' = store
    /\ \E named \in (IF result.named = {} THEN {NoCustomer} ELSE result.named) :
          last' = [request |-> request, ok |-> result.ok,
                   message |-> [kind |-> result.thrown, customer |-> named],
                   customer_id |-> result.customer_id, created |-> result.created,
                   availability |-> NoAvailability]
    /\ UNCHANGED <<blockedSlots, rules, workingHours, calendarEvents, nops, inflight>>

FindOrCreateCustomerRequest ==
    /\ last.request.op = "none"
    /\ \E email \in Emails \cup {NoEmail}, phone \in Phones \cup {NoPhone} :
          \E result \in FindOrCreateCustomer(customers, email, phone) :
              ServeCustomer(CustomerRequest("find_or_create_customer", NoCustomer, email, phone, NoCustomerDoc),
                            result, bookings)

\* the documents a validated insert is given
CustomerDocs ==
    {Customer(primary_email, email_addresses, phone_numbers) :
        primary_email \in {"ann@x.dk", "Ann@x.dk", "bob@x.dk"},
        email_addresses \in {<<>>, <<"ann@x.dk">>, <<"bob@x.dk">>},
        phone_numbers \in {<<>>} \cup {<<phone>> : phone \in Phones}}

\* insert of an MM Customer document
InsertCustomerRequest ==
    /\ last.request.op = "none"
    /\ \E doc \in CustomerDocs :
          ServeCustomer(CustomerRequest("insert", NoCustomer, NoEmail, NoPhone, doc),
                        InsertCustomer(customers, doc), bookings)

\* the documents an update saves: another primary email, one more email row
\* or one more phone row
CustomerUpdates(doc) ==
    {[doc EXCEPT !.primary_email = email] : email \in {"ann@x.dk", "bob@x.dk"}}
    \cup {[doc EXCEPT !.email_addresses = Append(@, email)] : email \in {"Ann@x.dk", "bob@x.dk"}}
    \cup {[doc EXCEPT !.phone_numbers = Append(@, phone)] : phone \in Phones}

MaxRows == 3      \* rows of a child table of a customer

\* save of an MM Customer document with changed fields
SaveCustomerRequest ==
    /\ last.request.op = "none"
    /\ \E name \in 1..Len(customers) : \E doc \in CustomerUpdates(customers[name]) :
          /\ Len(doc.email_addresses) <= MaxRows /\ Len(doc.phone_numbers) < MaxRows
          /\ ServeCustomer(CustomerRequest("save", name, NoEmail, NoPhone, doc),
                           SaveCustomer(customers, name, doc), bookings)

\* the window the bookings of this system are asked for
CustomerStart == Combine(Today, NowTime + 1)

\* a create flow without customer_id: the checks before the customer part,
\* the customer part, the insert of the booking
CreateForCustomer(op, created, customer_email, customer_phone) ==
    LET request == CustomerRequest(op, NoCustomer, customer_email, customer_phone, NoCustomerDoc)
    IN  IF customer_email = NoEmail
        THEN ServeCustomer(request, Resolved(NoCustomer, FALSE, customers, "email_required", {}), bookings)
        ELSE IF ~created.ok
        THEN ServeCustomer(request, Resolved(NoCustomer, FALSE, customers, created.message.kind, {}), bookings)
        ELSE \E result \in BookingCustomer(customers, customer_email, customer_phone) :
                ServeCustomer(request, result, IF result.ok THEN created.bookings ELSE bookings)

CreateSelfBookingCustomerRequest ==
    /\ last.request.op = "none"
    /\ Len(bookings) < MaxBookings
    /\ \E caller \in {"m1", "guest"}, email \in Emails \cup {NoEmail}, phone \in Phones \cup {NoPhone} :
          CreateForCustomer("create_self_booking",
                            CreateSelfBooking(caller, DateOf(CustomerStart), TimeOf(CustomerStart), 1),
                            email, phone)

CreateSlotBookingCustomerRequest ==
    /\ last.request.op = "none"
    /\ Len(bookings) < MaxBookings
    /\ \E caller \in {"m1", "guest"}, email \in Emails \cup {NoEmail}, phone \in Phones \cup {NoPhone} :
          CreateForCustomer("create_slot_booking",
                            CreateSlotBooking(caller, caller, CustomerStart, CustomerStart + 1),
                            email, phone)

InitCustomers ==
    /\ bookings = <<>> /\ blockedSlots = <<>> /\ rules = <<>> /\ workingHours = Unset
    /\ calendarEvents = <<>> /\ customers = <<>> /\ last = NoLast /\ nops = 0 /\ inflight = <<>>

NextCustomers ==
    \/ FindOrCreateCustomerRequest
    \/ InsertCustomerRequest
    \/ SaveCustomerRequest
    \/ CreateSelfBookingCustomerRequest
    \/ CreateSlotBookingCustomerRequest
    \/ EndRequest

SpecCustomers == InitCustomers /\ [][NextCustomers]_vars

-----------------------------------------------------------------------------
(* C24 *)

SameEmail(a, b) == LowerEmail(a) = LowerEmail(b)
SamePhone(a, b) == PhoneDigits(a) = PhoneDigits(b)
HasEmail(customer, email) == \E i \in 1..Len(customer.email_addresses) : SameEmail(customer.email_addresses[i], email)
HasPhone(customer, phone) == \E i \in 1..Len(customer.phone_numbers) : SamePhone(customer.phone_numbers[i], phone)

WithPrimaryEmail(store, email) == {c \in 1..Len(store) : SameEmail(store[c].primary_email, email)}
WithEmail(store, email) == {c \in 1..Len(store) : HasEmail(store[c], email)}
WithPhone(store, phone) == {c \in 1..Len(store) : phone # NoPhone /\ HasPhone(store[c], phone)}

ResolutionOps == {"find_or_create_customer", "create_self_booking", "create_slot_booking"}
CustomerThrows == {"primary_email_required", "primary_email_used", "primary_email_associated", "duplicate_email",
                   "email_associated", "email_is_primary", "duplicate_phone", "phone_associated"}

\* a call with a customer email that came to its customer part is answered
CustomerResolved ==
    /\ last.request.op = "none"
    /\ last'.request.op \in ResolutionOps
    /\ last'.request.email # NoEmail
    /\ last'.message.kind \in CustomerThrows \cup {"none"}

UsedAsIs(found) == last'.ok /\ last'.customer_id \in found /\ customers' = customers

\* C24: find_or_create_customer, create_self_booking and create_slot_booking
\* given a customer email and no customer id use the customer whose primary
\* email matches, else the one with a matching secondary email, else the one
\* whose phone matches the given phone in normalized form, with the new email
\* attached to it, no customer created and no failure, else a new customer.
C24_EmailThenPhoneLookup ==
    [][CustomerResolved =>
        LET email == last'.request.email
            phone == last'.request.phone
        IN  IF WithPrimaryEmail(customers, email) # {} THEN UsedAsIs(WithPrimaryEmail(customers, email))
            ELSE IF WithEmail(customers, email) # {} THEN UsedAsIs(WithEmail(customers, email))
            ELSE IF WithPhone(customers, phone) # {}
            THEN /\ last'.ok /\ ~last'.created
                 /\ last'.customer_id \in WithPhone(customers, phone)
                 /\ Len(customers') = Len(customers)
                 /\ HasEmail(customers'[last'.customer_id], email)
            ELSE /\ last'.ok /\ last'.created
                 /\ customers' = Append(customers, customers'[Len(customers')])
                 /\ last'.customer_id = Len(customers')
                 /\ SameEmail(customers'[last'.customer_id].primary_email, email)]_vars

-----------------------------------------------------------------------------
(* C25 *)

EmailsOf(customer) ==
    {LowerEmail(customer.primary_email)} \cup {LowerEmail(customer.email_addresses[i]) : i \in 1..Len(customer.email_addresses)}
PhoneNumbersOf(customer) == {PhoneDigits(customer.phone_numbers[i]) : i \in 1..Len(customer.phone_numbers)}

\* C25: in every state reached by find_or_create_customer calls and validated
\* MM Customer inserts and updates, no email, compared without regard to
\* case, is among the primary or secondary emails of two different customers
\* and no normalized phone number is among the phones of two different
\* customers.
C25_UniqueIdentity ==
    \A c, d \in 1..Len(customers) :
        c # d => /\ EmailsOf(customers[c]) \cap EmailsOf(customers[d]) = {}
                 /\ PhoneNumbersOf(customers[c]) \cap PhoneNumbersOf(customers[d]) = {}

-----------------------------------------------------------------------------
(* get_user_available_slots and get_team_available_slots: the slot grid.    *)
(* One unit of time stands for the 30 minutes of the grid.                  *)

GridStart == 1                       \* time(start_hour, 0)
GridEnd == DayLen - 2                \* time(end_hour - 1, 60 - interval_minutes)
GridInterval == 1                    \* interval_minutes
BookingNotice == 1                   \* buffer_minutes

\* now_time: time(min(now_minutes // 60, 23), now_minutes % 60) for today, None otherwise
NowTimeOf(check_date) ==
    IF check_date # Today THEN NoTime
    ELSE IF NowTime + BookingNotice >= DayLen THEN DayLen - 1
    ELSE NowTime + BookingNotice

\* the while loop over the grid: available[t] is what the body finds at time t
RECURSIVE SlotLoop(_, _, _, _)
SlotLoop(current_time, now_time, available, available_slots) ==
    IF ~(current_time <= GridEnd) THEN available_slots
    ELSE IF now_time # NoTime /\ current_time < now_time
    THEN SlotLoop(current_time + GridInterval, now_time, available, available_slots)
    ELSE SlotLoop(current_time + GridInterval, now_time, available,
                  IF available[current_time] THEN Append(available_slots, current_time)
                  ELSE available_slots)

\* A test that takes a slot as soon as one participant is available (OR in
\* place of AND); the slot-search property must not survive it.
SlotFreeForSome(participants, unavailable_participants) ==
    Len(unavailable_participants) < Len(participants)

\* all_available of get_team_available_slots
SlotFreeForAll(participants, unavailable_participants) == unavailable_participants = <<>>

Slots(ok, kind, available_slots) ==
    [ok |-> ok, message |-> OpMsg(kind, "", <<>>), slots |-> available_slots]

GetUserAvailableSlots(current_user, check_date, duration) ==
    LET available == [t \in Times |->
            CheckMemberAvailability(bookings, current_user, check_date, t, duration, NoBooking).available]
    IN  IF current_user \notin ActiveMembers(Department) THEN Slots(FALSE, "not_member", <<>>)
        ELSE Slots(TRUE, "slots", SlotLoop(GridStart, NowTimeOf(check_date), available, <<>>))

GetTeamAvailableSlots(caller, participants, check_date, duration) ==
    LET available == [t \in Times |->
            SlotFreeForAll(participants, UnavailableParticipants(participants, check_date, t, duration))]
    IN  IF participants = <<>> THEN Slots(FALSE, "no_participant", <<>>)
        ELSE IF "System Manager" \notin UserRoles(caller) /\ DepartmentLeader(Department) # caller
        THEN Slots(FALSE, "not_department_leader", <<>>)
        ELSE Slots(TRUE, "slots", SlotLoop(GridStart, NowTimeOf(check_date), available, <<>>))

SearchRequest(op, caller, participants, date, duration) ==
    [op |-> op, caller |-> caller, participants |-> participants, date |-> date, duration |-> duration]

\* a search reads and answers
ServeSearch(request, result) ==
    /\ last' = [request |-> request, ok |-> result.ok, message |-> result.message,
                slots |-> result.slots, availability |-> NoAvailability]
    /\ UNCHANGED <<bookings, blockedSlots, rules, workingHours, calendarEvents, customers, nops, inflight>>

SearchDates == {Today, Today + 1}

GetUserAvailableSlotsRequest ==
    /\ last.request.op = "none"
    /\ \E current_user \in {"m1", "m2", "guest"}, date \in SearchDates, duration \in Durations :
          ServeSearch(SearchRequest("get_user_available_slots", current_user, <<>>, date, duration),
                      GetUserAvailableSlots(current_user, date, duration))

GetTeamAvailableSlotsRequest ==
    /\ last.request.op = "none"
    /\ \E caller \in {"admin", "lead", "m1"}, participants \in ParticipantLists, date \in SearchDates,
          duration \in Durations :
          ServeSearch(SearchRequest("get_team_available_slots", caller, participants, date, duration),
                      GetTeamAvailableSlots(caller, participants, date, duration))

\* what the searched members have in their calendars
SlotBookings ==
    {BookingDoc("Confirmed", "Confirmed", Combine(d, s), Combine(d, s + 1), 1, FALSE,
                <<AssignedUser(host, TRUE)>>, <<>>) :
        host \in {"m1", "m2"}, d \in SearchDates, s \in GridStart..GridEnd}

SlotBlockedSlots ==
    {BlockedSlot(user, d, s, s + 1, "Lunch") : user \in {"m1", "m2"}, d \in SearchDates, s \in GridStart..GridEnd}

InitSlots ==
    /\ bookings \in {<<>>} \cup {<<b>> : b \in SlotBookings}
    /\ blockedSlots \in {<<>>} \cup {<<s>> : s \in SlotBlockedSlots}
    /\ rules = <<>> /\ workingHours = Unset
    /\ calendarEvents = <<>> /\ customers = <<>> /\ last = NoLast /\ nops = 0 /\ inflight = <<>>

NextSlots == GetUserAvailableSlotsRequest \/ GetTeamAvailableSlotsRequest \/ EndRequest

SpecSlots == InitSlots /\ [][NextSlots]_vars

-----------------------------------------------------------------------------
(* C26 *)

\* the grid times of a date: every GridInterval from GridStart to GridEnd,
\* for today those not earlier than now plus the notice
GridTimes(date) ==
    {t \in GridStart..GridEnd :
        /\ (t - GridStart) % GridInterval = 0
        /\ date = Today => t >= NowTime + BookingNotice}

Free(member, date, t, duration) ==
    CheckMemberAvailability(bookings, member, date, t, duration, NoBooking).available

Increasing(slots) == \A i, j \in 1..Len(slots) : i < j => slots[i] < slots[j]
SlotSet(slots) == {slots[i] : i \in 1..Len(slots)}
Listed(participants) == {participants[i] : i \in 1..Len(participants)}

TeamSlotsAnswered == last.request.op = "get_team_available_slots" /\ last.ok
UserSlotsAnswered == last.request.op = "get_user_available_slots" /\ last.ok

TeamSearchRight(request, slots) ==
    /\ Increasing(slots)
    /\ SlotSet(slots) = {t \in GridTimes(request.date) :
                            \A p \in Listed(request.participants) : Free(p, request.date, t, request.duration)}
    /\ \A t \in GridTimes(request.date) :
          t \in SlotSet(slots) <=>
             \A p \in Listed(request.participants) :
                t \in SlotSet(GetUserAvailableSlots(p, request.date, request.duration).slots)
    /\ \A t \in SlotSet(slots) :
          CreateTeamMeeting(request.caller, request.participants, request.date, t,
                            request.duration).message.kind # "participants_unavailable"

UserSearchRight(request, slots) ==
    /\ Increasing(slots)
    /\ SlotSet(slots) = {t \in GridTimes(request.date) : Free(request.caller, request.date, t, request.duration)}
    /\ \A t \in SlotSet(slots) :
          CreateSelfBooking(request.caller, request.date, t, request.duration).message.kind # "you_unavailable"

\* C26: get_team_available_slots returns exactly the grid times (for today
\* without those earlier than now plus the notice) at which
\* check_member_availability finds every selected participant available,
\* which are the times every participant's own get_user_available_slots
\* returns; and every slot a search returns passes, on the same tables, the
\* availability check of create_team_meeting or create_self_booking.
C26_SlotSearch ==
    /\ TeamSlotsAnswered => TeamSearchRight(last.request, last.slots)
    /\ UserSlotsAnswered => UserSearchRight(last.request, last.slots)

\* a search for two participants that returns some but not all grid times of
\* the date, the first participant being busy at a grid time the second is free
C26_Witness ==
    /\ TeamSlotsAnswered
    /\ Len(last.request.participants) = 2
    /\ last.slots # <<>>
    /\ SlotSet(last.slots) # GridTimes(last.request.date)
    /\ \E t \in GridTimes(last.request.date) :
          /\ ~Free(last.request.participants[1], last.request.date, t, last.request.duration)
          /\ Free(last.request.participants[2], last.request.date, t, last.request.duration)

-----------------------------------------------------------------------------
(* C27 *)

\* the blocked slots of the member on the requested date that contain the requested start time
BlockedSlotsAtStart(request) ==
    {i \in 1..Len(blockedSlots) :
        /\ blockedSlots[i].user = request.caller
        /\ blockedSlots[i].blocked_date = DateOf(request.start_datetime)
        /\ blockedSlots[i].start_time <= TimeOf(request.start_datetime)
        /\ TimeOf(request.start_datetime) < blockedSlots[i].end_time}

\* the Confirmed or Pending bookings hosted by the member, other than the
\* excluded one, that contain the requested start datetime
BookingsAtStart(request) ==
    {id \in BookingIds(bookings) :
        /\ id # request.booking_id
        /\ request.caller \in HostUsers(bookings[id])
        /\ bookings[id].booking_status \in {"Confirmed", "Pending"}
        /\ bookings[id].start_datetime <= request.start_datetime
        /\ request.start_datetime < bookings[id].end_datetime}

\* C27: for every start time and positive duration, also when the end falls
\* after midnight, a blocked slot of the member on the requested date that
\* contains the requested start time, or an active booking of the member that
\* contains the requested start datetime, makes the result unavailable.
C27_BusyAtStartIsUnavailable ==
    (Answered /\ last.request.duration > 0
     /\ (BlockedSlotsAtStart(last.request) # {} \/ BookingsAtStart(last.request) # {})) =>
        ~last.availability.available

-----------------------------------------------------------------------------
(* Creates and reschedules for hosts with a daily limit, a buffer, a        *)
(* blocked slot or a confirmed booking of their own                         *)

ConfirmedBooking(host, s) ==
    BookingDoc("Confirmed", "Confirmed", Combine(Today, s), Combine(Today, s + 1), 1, FALSE,
               <<AssignedUser(host, TRUE)>>, <<>>)

\* m1 with max_bookings_per_day and as many confirmed bookings on the day
InitDailyLimit ==
    /\ \E per_day \in 1..2 :
          /\ rules = <<AvailabilityRule("m1", 0, per_day, <<>>)>>
          /\ bookings = [i \in 1..per_day |-> ConfirmedBooking("m1", i)]
    /\ blockedSlots = <<>>

\* the department leader with a blocked slot or a confirmed booking
InitBusyLeader ==
    /\ rules = <<>>
    /\ bookings \in {<<>>, <<ConfirmedBooking("lead", 2)>>}
    /\ blockedSlots \in {<<>>, <<BlockedSlot("lead", Today, 2, 3, "Lunch")>>}

\* m1 with buffer_time_before and at most one confirmed booking
InitBuffer ==
    /\ \E buffer_before \in 1..2 : rules = <<AvailabilityRule("m1", buffer_before, 0, <<>>)>>
    /\ bookings \in {<<>>, <<ConfirmedBooking("m1", 2)>>}
    /\ blockedSlots = <<>>

InitRules ==
    /\ InitDailyLimit \/ InitBusyLeader \/ InitBuffer
    /\ workingHours = Unset /\ calendarEvents = <<>> /\ customers = <<>>
    /\ last = NoLast /\ inflight = <<>>
    /\ nops = IF bookings = <<>> THEN 0 ELSE MaxOps - 1

NextRules ==
    \/ RescheduleBookingInternalRequest
    \/ CreateSelfBookingRequest
    \/ CreateTeamMeetingRequest
    \/ EndRequest

SpecRules == InitRules /\ [][NextRules]_vars

-----------------------------------------------------------------------------
(* C28 *)

\* the table with a booking taken out of every search
Without(store, id) == [store EXCEPT ![id].booking_status = "Cancelled"]

RescheduleRefusedForHost ==
    /\ Serving
    /\ last'.request.op = "reschedule_booking_internal"
    /\ last'.message.kind = "member_unavailable"

\* C28: a reschedule is refused for the host's availability only when the
\* host is unavailable at the new time without the moved booking in the
\* tables: the moved booking is left out of the daily and weekly counts as
\* it is left out of the conflict and buffer searches.
C28_MovedBookingNeverBlocks ==
    [][RescheduleRefusedForHost =>
        LET id == last'.request.booking_id
            start == last'.request.start_datetime
        IN  ~CheckMemberAvailability(Without(bookings, id), PrimaryUser(bookings[id]), DateOf(start),
                                     TimeOf(start), bookings[id].duration, NoBooking).available]_vars

-----------------------------------------------------------------------------
(* C29 *)

TeamMeetingCreated == Serving /\ last'.request.op = "create_team_meeting" /\ last'.ok

\* the blocked slots of the user that share time with the window [start, end)
BlockedDuring(user, start, end) ==
    {i \in 1..Len(blockedSlots) :
        /\ blockedSlots[i].user = user
        /\ Combine(blockedSlots[i].blocked_date, blockedSlots[i].start_time) < end
        /\ Combine(blockedSlots[i].blocked_date, blockedSlots[i].end_time) > start}

\* the Confirmed or Pending bookings hosted by the user that share time with the window
HostedDuring(store, user, start, end) ==
    {id \in BookingIds(store) :
        /\ user \in HostUsers(store[id])
        /\ store[id].booking_status \in {"Confirmed", "Pending"}
        /\ store[id].start_datetime < end
        /\ store[id].end_datetime > start}

\* C29: create_team_meeting creates no meeting whose window overlaps a
\* blocked slot or another active booking of its primary host, the calling
\* leader, also when the leader is not among the listed participants.
C29_TeamMeetingHostFree ==
    [][TeamMeetingCreated =>
        LET meeting == bookings'[Len(bookings')]
            host == PrimaryUser(meeting)
        IN  /\ host = last'.request.caller
            /\ BlockedDuring(host, meeting.start_datetime, meeting.end_datetime) = {}
            /\ HostedDuring(bookings, host, meeting.start_datetime, meeting.end_datetime) = {}]_vars

-----------------------------------------------------------------------------
(* C30 *)

\* the members whose default rule has a buffer before and none after
BufferedBefore == {i \in 1..Len(rules) : rules[i].is_default /\ rules[i].buffer_time_before > 0
                                          /\ rules[i].buffer_time_after = 0}

\* the gap between two bookings that do not overlap
Gap(a, b) == IF a.end_datetime <= b.start_datetime THEN b.start_datetime - a.end_datetime
             ELSE a.start_datetime - b.end_datetime

\* C30: for a member whose default rule has buffer_time_before = b > 0 and
\* buffer_time_after = 0, any two active bookings of the member on the same
\* day that do not overlap are at least b apart, in every state reached by
\* admitted creates and reschedules, whichever of the two came first.
C30_BufferBothWays ==
    \A r \in BufferedBefore : \A i, j \in BookingIds(bookings) :
        (/\ i # j
         /\ Open(bookings[i]) /\ Open(bookings[j])
         /\ rules[r].user \in HostUsers(bookings[i]) \cap HostUsers(bookings[j])
         /\ DateOf(bookings[i].start_datetime) = DateOf(bookings[j].start_datetime)
         /\ ~Overlap(bookings[i], bookings[j])) =>
            Gap(bookings[i], bookings[j]) >= rules[r].buffer_time_before

====
